---- MODULE Spec2Model ----
(***************************************************************************)
(* Model of the legal-code ingestion parser (src/ingestion/parse_codexes.py)*)
(* and of the programs around it: the downloader (download_codexes.py),    *)
(* the uploader (embed_and_upload.py), the evaluator's key (run_eval.py)   *)
(* and the answer pipeline (src/pipelines/legal_rag.py).                   *)
(*                                                                         *)
(* Text is a sequence of tokens.  A token is one character (" ", ".", a    *)
(* digit) or an atomic run of characters whose length CharLen gives (a     *)
(* word, the marker word, a skip-marker phrase, a run of digits).  The    *)
(* Cyrillic words of the source are written in Latin transliteration.     *)
(***************************************************************************)
EXTENDS Integers, Sequences, FiniteSets, TLC

\* ------------------------------------------------------------------ bounds
MaxParas == 4

NumCodes == 2

MaxRuns == 2

NumCallers == 2

\* the largest corpus the uploader is given
MaxArticles == 201

\* runs of embed_and_upload.py
MaxUploads == 2

\* the largest max_retries a caller passes to _upload_with_retry
MaxRetries == 3

\* questions put to the pipeline
MaxQuestions == 2

\* hits of one search
MaxHits == 2

\* chunks of one streamed completion
MaxChunks == 3

\* runs of download_codexes.py on one directory
MaxDownloads == 2

\* ------------------------------------------------------- program constants
\* len(text) > 20 in save_article
MinTextLen == 20

\* len(text) < 3 in the paragraph loop
MinLineLen == 3

\* len(h) > 10 in extract_chapter_from_index
MinHashLen == 10

\* int() raises ValueError on a digit string longer than this (CPython default)
IntMaxStrDigits == 4300

\* length of the prefix the comment on ARTICLE_HEADER gives as its example
ShortPrefixLen == 6

\* BATCH_SIZE = 100 in embed_and_upload.py
BATCH_SIZE == 100

\* max_retries: int = 3, the default of _upload_with_retry
DefaultRetries == 3

\* wait = 5 * (attempt + 1)
RetryWait == 5

\* len(page_id) > 5 in download_article_pages
MinPageIdLen == 5

\* ---------------------------------------------------------------- alphabet
\* characters matched by \s in a str pattern (the no-break space included)
WS == {" ", "nbsp"}

DigitRun == "9x4301"

DigitToks == {"0", "1", "2", "5", "6", DigitRun}

Min(S) == CHOOSE x \in S : \A y \in S : x <= y

CharLen(tok) ==
    CASE tok = DigitRun -> 4301
      [] tok \in {"Statya", "STATYA", "statya"} -> 6
      [] tok \in {"(v red.", "(V red."} -> 7
      [] tok \in {"Glava", "GLAVA", "glava"} -> 5
      [] tok \in {"Razdel", "RAZDEL", "razdel"} -> 6
      [] tok = "Body10" -> 10
      [] tok = "Text09" -> 9
      [] tok = "Note10" -> 10
      [] tok \in {"Foo", "Bar", "Dup"} -> 3
      [] tok = "IV" -> 2
      [] tok \in {"Body", "one.", "two."} -> 4
      [] tok = "a1b2c3d4e5f6" -> 12
      [] tok = "m4n5o6p7q8r9" -> 12
      [] tok = "z9y8x7w6v5u4" -> 12
      [] tok = "g7h8i9j0k1l2" -> 12
      [] tok = "index" -> 5
      [] tok = "document" -> 8
      [] tok = "cons_doc_LAW" -> 12
      [] tok = "other" -> 5
      [] tok = "s1h2o3" -> 6
      [] tok = "s1h2o3r4t5" -> 10
      [] OTHER -> 1

\* str.lower() of one token
Lower(tok) ==
    CASE tok \in {"Statya", "STATYA"} -> "statya"
      [] tok = "(V red." -> "(v red."
      [] tok \in {"Glava", "GLAVA"} -> "glava"
      [] tok \in {"Razdel", "RAZDEL"} -> "razdel"
      [] OTHER -> tok

RECURSIVE TextLen(_)
\* len(text)
TextLen(t) == IF t = <<>> THEN 0 ELSE CharLen(Head(t)) + TextLen(Tail(t))

RECURSIVE Concat(_)
\* "".join(seq of texts)
Concat(ts) == IF ts = <<>> THEN <<>> ELSE Head(ts) \o Concat(Tail(ts))

RECURSIVE JoinSpace(_)
\* " ".join(parts)
JoinSpace(ts) ==
    IF ts = <<>> THEN <<>>
    ELSE IF Len(ts) = 1 THEN Head(ts)
    ELSE Head(ts) \o <<" ">> \o JoinSpace(Tail(ts))

\* str.strip(): leading and trailing whitespace removed
Strip(t) ==
    LET NonWs == {i \in 1..Len(t) : t[i] \notin WS}
    IN  IF NonWs = {} THEN <<>>
        ELSE SubSeq(t, Min(NonWs), CHOOSE i \in NonWs : \A j \in NonWs : j <= i)

RECURSIVE CollapseWS(_)
\* re.sub(r"\s+", " ", text)
CollapseWS(t) ==
    IF t = <<>> THEN <<>>
    ELSE IF Head(t) \in WS
         THEN IF Len(t) > 1 /\ t[2] \in WS
              THEN CollapseWS(Tail(t))
              ELSE <<" ">> \o CollapseWS(Tail(t))
         ELSE <<Head(t)>> \o CollapseWS(Tail(t))

\* text.replace("\xa0", " ")
ReplaceNbsp(t) == [i \in 1..Len(t) |-> IF t[i] = "nbsp" THEN " " ELSE t[i]]

clean_text(t) == ReplaceNbsp(Strip(CollapseWS(t)))

\* ----------------------------------------------------------- header grammar
\* first index >= i that is past the end or not in the class S
SkipClass(t, i, S) ==
    Min({j \in i..(Len(t) + 1) : j = Len(t) + 1 \/ t[j] \notin S})

NoMatch == [ok |-> FALSE, num |-> <<>>, title |-> <<>>]

\* \s*\.\s*(.+) from index i, the article number being num
TailMatch(t, i, num) ==
    LET d == SkipClass(t, i, WS)
    IN  IF d > Len(t) \/ t[d] # "." THEN NoMatch
        ELSE LET s == SkipClass(t, d + 1, WS)
             IN  IF s <= Len(t)
                 THEN [ok |-> TRUE, num |-> num, title |-> SubSeq(t, s, Len(t))]
                 ELSE IF s - 1 >= d + 1
                 THEN [ok |-> TRUE, num |-> num, title |-> SubSeq(t, Len(t), Len(t))]
                 ELSE NoMatch

\* Statya\s+(\d+(?:\.\d+)?)\s*\.\s*(.+) with the marker word at index k
MatchAt(t, k) ==
    IF k > Len(t) \/ Lower(t[k]) # "statya" THEN NoMatch
    ELSE LET j == SkipClass(t, k + 1, WS)
             e == SkipClass(t, j, DigitToks)
         IN  IF j = k + 1 \/ e = j THEN NoMatch
             ELSE LET e2 == IF e <= Len(t) /\ t[e] = "."
                            THEN SkipClass(t, e + 1, DigitToks) ELSE e
                      two == IF e2 > e + 1
                             THEN TailMatch(t, e2, SubSeq(t, j, e2 - 1))
                             ELSE NoMatch
                 IN  IF two.ok THEN two
                     ELSE TailMatch(t, e, SubSeq(t, j, e - 1))

\* ARTICLE_HEADER.match(text): the optional prefix group is tried first,
\* shortest prefix first; the marker at the line start is the fallback
ARTICLE_HEADER(t) ==
    LET Ks == {k \in 2..Len(t) : t[k - 1] \in WS /\ MatchAt(t, k).ok}
    IN  IF Ks # {} THEN MatchAt(t, Min(Ks)) ELSE MatchAt(t, 1)

\* ------------------------------------------------------------ noise filter
SKIP_MARKERS == {"(v red."}

EditClasses == {"doc-edit", "document__edit", "doc-insert", "document__insert"}

\* any(marker in text_lower for marker in SKIP_MARKERS)
HasSkipMarker(t) == \E i \in 1..Len(t) : Lower(t[i]) \in SKIP_MARKERS

\* p.get_text(strip=True): every string under p stripped, empty ones dropped
RECURSIVE StripAll(_)
StripAll(nodes) ==
    IF nodes = <<>> THEN <<>> ELSE <<Strip(Head(nodes))>> \o StripAll(Tail(nodes))

get_text(p) == Concat(StripAll(p.nodes))

\* the parent of p carries an edit/insert class
ParentIsEdit(p) == p.anc[1] \cap EditClasses # {}

\* some enclosing element of p, at any depth, carries an edit/insert class
InEditBlock(p) == \E i \in 1..Len(p.anc) : p.anc[i] \cap EditClasses # {}

\* ----------------------------------------------------------- chapter index
CodexIds == <<"gk1", "gk2", "gk3", "gk4", "uk", "tk", "nk1", "nk2", "sk", "jk", "koap">>

\* the codes main() iterates, in the order of CODEX_NAMES
CODEX_NAMES == SubSeq(CodexIds, 1, NumCodes)

CodeSet == {CODEX_NAMES[i] : i \in 1..NumCodes}

\* CODEX_NAMES.get(codex_id, codex_id)
CodexName(c) == <<"name", c>>

\* CODEX_URLS.get(codex_id, "")
CODEX_URLS(c) == <<"url", c>>

ChapterKeywords == {"chast", "razdel", "podrazdel", "glava"}

NumeralToks == DigitToks \cup {"IV"}

\* re.match(r"(Chast|Razdel|Podrazdel|Glava)\s+[\dIVXLCDM]+[\.\s]*(.*)", text)
ChapterMatch(t) ==
    /\ Len(t) >= 3
    /\ Lower(t[1]) \in ChapterKeywords
    /\ t[2] \in WS
    /\ SkipClass(t, 2, WS) <= Len(t)
    /\ t[SkipClass(t, 2, WS)] \in NumeralToks

\* href.rstrip("/").split("/")[-1]
LastSegment(href) ==
    LET NonSlash == {i \in 1..Len(href) : href[i] # "/"}
        last == CHOOSE i \in NonSlash : \A j \in NonSlash : j <= i
        Slashes == {i \in 1..last : href[i] = "/"}
        from == IF Slashes = {} THEN 1
                ELSE 1 + (CHOOSE i \in Slashes : \A j \in Slashes : j <= i)
    IN  IF NonSlash = {} THEN <<>> ELSE SubSeq(href, from, last)

\* WalkStep that keeps the first chapter recorded for a page key
WalkStepFirstWins(el, current_chapter, chapter_map) ==
    LET cur == IF ChapterMatch(el.text) THEN clean_text(el.text)
               ELSE current_chapter
        h == LastSegment(el.href)
    IN  [current_chapter |-> cur,
         chapter_map |-> IF el.name = "a" /\ el.href # <<>> /\ TextLen(h) > MinHashLen
                         THEN chapter_map @@ (h :> cur)
                         ELSE chapter_map]

\* one iteration of the loop over soup.find_all([...])
WalkStep(el, current_chapter, chapter_map) ==
    LET cur == IF ChapterMatch(el.text) THEN clean_text(el.text)
               ELSE current_chapter
        h == LastSegment(el.href)
    IN  [current_chapter |-> cur,
         chapter_map |-> IF el.name = "a" /\ el.href # <<>> /\ TextLen(h) > MinHashLen
                         THEN (h :> cur) @@ chapter_map
                         ELSE chapter_map]

RECURSIVE WalkIndex(_, _, _)
\* the loop over soup.find_all([...]) that builds chapter_map
WalkIndex(els, current_chapter, chapter_map) ==
    IF els = <<>> THEN chapter_map
    ELSE LET w == WalkStep(Head(els), current_chapter, chapter_map)
         IN  WalkIndex(Tail(els), w.current_chapter, w.chapter_map)

NoIndex == [exists |-> FALSE, els |-> <<>>]

\* extract_chapter_from_index that indexes the map without a default
extract_chapter_no_default(cache, index_file, codex_id, page_hash) ==
    IF ~index_file.exists THEN [chapter |-> <<>>, cache |-> cache]
    ELSE LET c2 == IF codex_id \in DOMAIN cache THEN cache
                   ELSE (codex_id :> WalkIndex(index_file.els, <<>>, <<>>)) @@ cache
         IN  [chapter |-> IF page_hash \in DOMAIN c2[codex_id]
                          THEN c2[codex_id][page_hash] ELSE <<"KeyError">>,
              cache |-> c2]

\* extract_chapter_from_index: the chapter found and the cache afterwards
extract_chapter_from_index(cache, index_file, codex_id, page_hash) ==
    IF ~index_file.exists THEN [chapter |-> <<>>, cache |-> cache]
    ELSE LET c2 == IF codex_id \in DOMAIN cache THEN cache
                   ELSE (codex_id :> WalkIndex(index_file.els, <<>>, <<>>)) @@ cache
         IN  [chapter |-> IF page_hash \in DOMAIN c2[codex_id]
                          THEN c2[codex_id][page_hash] ELSE <<>>,
              cache |-> c2]

\* ------------------------------------------------------ parse_article_page
\* None and the empty string are both falsy; group(1) is never empty
None == <<>>

\* the locals of parse_article_page before the paragraph loop
PageStart(cache) ==
    [current_num |-> None, current_title |-> <<>>, current_parts |-> <<>>,
     articles |-> <<>>, cache |-> cache]

\* the record save_article appends
Article(st, chapter, codex_id, page_hash) ==
    [codex |-> CodexName(codex_id),
     codex_id |-> codex_id,
     chapter |-> chapter,
     article_num |-> st.current_num,
     article_title |-> st.current_title,
     text |-> clean_text(JoinSpace(st.current_parts)),
     url |-> [base |-> CODEX_URLS(codex_id), page |-> page_hash]]

\* save_article with the length test off by one
save_article_ge(st, codex_id, page_hash, index_file) ==
    IF /\ st.current_num # None
       /\ st.current_parts # <<>>
       /\ TextLen(clean_text(JoinSpace(st.current_parts))) >= MinTextLen
    THEN LET ch == extract_chapter_from_index(st.cache, index_file, codex_id, page_hash)
         IN  [st EXCEPT !.articles = Append(@, Article(st, ch.chapter, codex_id, page_hash)),
                        !.cache = ch.cache]
    ELSE st

\* save_article without the length test
save_article_nolen(st, codex_id, page_hash, index_file) ==
    IF /\ st.current_num # None
       /\ st.current_parts # <<>>
    THEN LET ch == extract_chapter_from_index(st.cache, index_file, codex_id, page_hash)
         IN  [st EXCEPT !.articles = Append(@, Article(st, ch.chapter, codex_id, page_hash)),
                        !.cache = ch.cache]
    ELSE st

save_article(st, codex_id, page_hash, index_file) ==
    IF /\ st.current_num # None
       /\ st.current_parts # <<>>
       /\ TextLen(clean_text(JoinSpace(st.current_parts))) > MinTextLen
    THEN LET ch == extract_chapter_from_index(st.cache, index_file, codex_id, page_hash)
         IN  [st EXCEPT !.articles = Append(@, Article(st, ch.chapter, codex_id, page_hash)),
                        !.cache = ch.cache]
    ELSE st

\* Dropped whose marker test compares the text as written, not lower-cased
DroppedCaseSensitive(p) ==
    \/ ParentIsEdit(p)
    \/ get_text(p) = <<>>
    \/ TextLen(get_text(p)) < MinLineLen
    \/ \E i \in 1..Len(get_text(p)) : get_text(p)[i] \in SKIP_MARKERS

\* the paragraph is dropped before it is classified
Dropped(p) ==
    \/ ParentIsEdit(p)
    \/ get_text(p) = <<>>
    \/ TextLen(get_text(p)) < MinLineLen
    \/ HasSkipMarker(get_text(p))

\* HeaderStep that keeps the parts of the previous candidate
HeaderStepKeepParts(st, header_match, codex_id, page_hash, index_file) ==
    [save_article(st, codex_id, page_hash, index_file) EXCEPT
        !.current_num = header_match.num,
        !.current_title = clean_text(header_match.title)]

\* if header_match: save_article(); the three assignments; continue
HeaderStep(st, header_match, codex_id, page_hash, index_file) ==
    [save_article(st, codex_id, page_hash, index_file) EXCEPT
        !.current_num = header_match.num,
        !.current_title = clean_text(header_match.title),
        !.current_parts = <<>>]

\* BodyStep that puts the line in front of the parts
BodyStepPrepend(st, text) ==
    IF st.current_num # None
    THEN [st EXCEPT !.current_parts = <<text>> \o @]
    ELSE st

\* BodyStep without the test of current_num
BodyStepAlways(st, text) == [st EXCEPT !.current_parts = Append(@, text)]

\* if current_num: current_parts.append(text)
BodyStep(st, text) ==
    IF st.current_num # None
    THEN [st EXCEPT !.current_parts = Append(@, text)]
    ELSE st

\* ParaStep that tests for a header before it drops a line
ParaStepHeaderFirst(st, p, codex_id, page_hash, index_file) ==
    LET text == get_text(p)
        header_match == ARTICLE_HEADER(text)
    IN  IF header_match.ok
        THEN HeaderStep(st, header_match, codex_id, page_hash, index_file)
        ELSE IF Dropped(p) THEN st
        ELSE BodyStep(st, text)

\* one iteration of "for p in all_paragraphs"
ParaStep(st, p, codex_id, page_hash, index_file) ==
    LET text == get_text(p)
        header_match == ARTICLE_HEADER(text)
    IN  IF Dropped(p) THEN st
        ELSE IF header_match.ok
        THEN HeaderStep(st, header_match, codex_id, page_hash, index_file)
        ELSE BodyStep(st, text)

RECURSIVE ParaLoop(_, _, _, _, _)
ParaLoop(st, paras, codex_id, page_hash, index_file) ==
    IF paras = <<>> THEN st
    ELSE ParaLoop(ParaStep(st, Head(paras), codex_id, page_hash, index_file),
                  Tail(paras), codex_id, page_hash, index_file)

\* FinalFlush that forgets the candidate still open
FinalFlushNone(st, codex_id, page_hash, index_file) == st

\* the save_article() after the paragraph loop
FinalFlush(st, codex_id, page_hash, index_file) ==
    save_article(st, codex_id, page_hash, index_file)

\* parse_article_page(html, codex_id, page_hash): articles and cache afterwards
parse_article_page(html, codex_id, page_hash, index_file, cache) ==
    IF ~html.content THEN PageStart(cache)
    ELSE FinalFlush(ParaLoop(PageStart(cache), html.paras, codex_id, page_hash, index_file),
                    codex_id, page_hash, index_file)

\* -------------------------------------------------------------- parse_codex
\* key = (art["codex_id"], art["article_num"])
Key(art) == <<art.codex_id, art.article_num>>

RECURSIVE DedupLastWins(_, _, _)
\* Dedup in which a later duplicate replaces the record kept
DedupLastWins(arts, all_articles, seen) ==
    IF arts = <<>> THEN [all_articles |-> all_articles, seen |-> seen]
    ELSE LET art == Head(arts)
         IN  IF Key(art) \notin seen
             THEN DedupLastWins(Tail(arts), Append(all_articles, art), seen \cup {Key(art)})
             ELSE DedupLastWins(Tail(arts),
                     [i \in 1..Len(all_articles) |->
                         IF Key(all_articles[i]) = Key(art) THEN art ELSE all_articles[i]],
                     seen)

RECURSIVE DedupNoCheck(_, _, _)
\* Dedup without the test of the seen-set
DedupNoCheck(arts, all_articles, seen) ==
    IF arts = <<>> THEN [all_articles |-> all_articles, seen |-> seen]
    ELSE DedupNoCheck(Tail(arts), Append(all_articles, Head(arts)),
                      seen \cup {Key(Head(arts))})

RECURSIVE Dedup(_, _, _)
\* for art in articles: if key not in seen: seen.add(key); all_articles.append(art)
Dedup(arts, all_articles, seen) ==
    IF arts = <<>> THEN [all_articles |-> all_articles, seen |-> seen]
    ELSE LET art == Head(arts)
         IN  IF Key(art) \notin seen
             THEN Dedup(Tail(arts), Append(all_articles, art), seen \cup {Key(art)})
             ELSE Dedup(Tail(arts), all_articles, seen)

RECURSIVE SplitDot(_)
\* a["article_num"].split(".")
SplitDot(num) ==
    LET Dots == {i \in 1..Len(num) : num[i] = "."}
    IN  IF Dots = {} THEN <<num>>
        ELSE <<SubSeq(num, 1, Min(Dots) - 1)>>
             \o SplitDot(SubSeq(num, Min(Dots) + 1, Len(num)))

\* int(p) succeeds: decimal digits, at least one, no more than the limit
IntOk(ds) ==
    /\ ds # <<>>
    /\ \A i \in 1..Len(ds) : ds[i] \in DigitToks
    /\ TextLen(ds) <= IntMaxStrDigits

DigitVal(tok) ==
    CASE tok = "0" -> 0 [] tok = "1" -> 1 [] tok = "2" -> 2 [] tok = "5" -> 5
      [] tok = "6" -> 6

RECURSIVE IntOf(_)
\* int(p) of a digit string
IntOf(ds) ==
    IF ds = <<>> THEN 0
    ELSE 10 * IntOf(SubSeq(ds, 1, Len(ds) - 1)) + DigitVal(ds[Len(ds)])

\* sort_key raises ValueError for this record or not
KeyOk(a) == \A i \in 1..Len(SplitDot(a.article_num)) : IntOk(SplitDot(a.article_num)[i])

\* sort_key(a): tuple(int(p) for p in parts)
sort_key(a) ==
    LET parts == SplitDot(a.article_num)
    IN  [i \in 1..Len(parts) |-> IntOf(parts[i])]

\* tuple comparison a < b
TupleLess(a, b) ==
    \E k \in 1..(Len(a) + 1) :
        /\ k <= Len(b)
        /\ \A i \in 1..(k - 1) : a[i] = b[i]
        /\ k = Len(a) + 1 \/ a[k] < b[k]

RECURSIVE SortBy(_, _)
\* list.sort(key=...): stable, ascending; sorted is the part already in order
SortBy(rest, sorted) ==
    IF rest = <<>> THEN sorted
    ELSE LET x == Head(rest)
             n == Cardinality({i \in 1..Len(sorted) :
                                 ~TupleLess(sort_key(x), sort_key(sorted[i]))})
         IN  SortBy(Tail(rest),
                    SubSeq(sorted, 1, n) \o <<x>> \o SubSeq(sorted, n + 1, Len(sorted)))

\* the exception all_articles.sort(key=sort_key) raises, if any
SortRaises(all_articles) ==
    IF \A i \in 1..Len(all_articles) : KeyOk(all_articles[i])
    THEN "none" ELSE "ValueError"

\* except (ValueError, TypeError): pass
Caught == {"ValueError", "TypeError"}

\* TrySort that never sorts
TrySortNever(all_articles) == all_articles

\* TrySort whose key function maps an unparsable number to the empty tuple
TrySortDefaultKey(all_articles) ==
    LET ok == SelectSeq(all_articles, KeyOk)
        bad == SelectSeq(all_articles, LAMBDA a : ~KeyOk(a))
    IN  bad \o SortBy(ok, <<>>)

\* try: all_articles.sort(key=sort_key) except (ValueError, TypeError): pass
\* the keys are all computed before any element moves
TrySort(all_articles) ==
    IF \A i \in 1..Len(all_articles) : KeyOk(all_articles[i])
    THEN SortBy(all_articles, <<>>)
    ELSE all_articles

\* ------------------------------------------------------------------ inputs
ContentClass == {"document-page__content"}

\* a <p> element: the class lists of its ancestors, parent first, up to the
\* content container, and the strings under it
Para(anc, nodes) == [anc |-> anc, nodes |-> nodes]

Plain == <<ContentClass>>

H5 == <<"Statya", " ", "5", ".", " ", "Foo">>

H15 == <<"GK", " ", "STATYA", "nbsp", "1", ".", "5", " ", ".", "Bar", " ", "Foo">>

H6 == <<"Statya", " ", "1", "0", ".", " ", "Bar">>

B21 == <<"Body10", " ", "Body10">>

Paragraphs ==
    { Para(Plain, <<H5>>),
      Para(Plain, <<<<" ">>, H15>>),
      Para(Plain, <<<<" ", "Body10", "nbsp", " ", "Body10", " ">>>>),
      Para(Plain, <<<<"Body10", "Body10">>>>),
      Para(Plain, <<<<"Text09", " ", "nbsp", " ", "Text09">>>>),
      Para(Plain, <<<<"x">>>>),
      Para(Plain, <<<<"Note10", " ", "(V red.">>>>),
      Para(Plain, <<<<"Statya", " ", "2", ".", " ", "(v red.">>>>),
      Para(Plain, <<<<"Body10", " ", "statya", " ", "2", ".", " ", "Dup">>>>),
      Para(<<{"doc-edit"}, ContentClass>>, <<H6>>),
      Para(<<{"note", "document__insert"}, ContentClass>>, <<<<"Note10", " ", "Note10", " ", "x">>>>),
      Para(<<{"quote"}, {"doc-edit"}, ContentClass>>, <<H6>>) }

HSix == <<"Statya", " ", "6", ".", " ", "Bar">>

BodyOne == <<"Body", " ", "one.">>

BodyTwo == <<"Body", " ", "two.">>

\* the page of two articles with bodies of 9 characters each
ScenarioA ==
    << Para(Plain, <<H5>>), Para(Plain, <<BodyOne>>),
       Para(Plain, <<HSix>>), Para(Plain, <<BodyTwo>>) >>

\* the same page with bodies of 21 characters each
ScenarioALong ==
    << Para(Plain, <<H5>>), Para(Plain, <<B21>>),
       Para(Plain, <<HSix>>), Para(Plain, <<B21>>) >>

Scenarios == {ScenarioA, ScenarioALong}

\* the paragraphs that continue a page of Scenarios read as far as s
ScenarioNext(s) ==
    {S[Len(s) + 1] : S \in {T \in Scenarios : Len(s) < Len(T) /\ SubSeq(T, 1, Len(s)) = s}}

HashA == <<"a1b2c3d4e5f6">>

HashM == <<"m4n5o6p7q8r9">>

HashZ == <<"z9y8x7w6v5u4">>

\* a page key the table of contents links and no directory holds
HashG == <<"g7h8i9j0k1l2">>

El(name, text, href) == [name |-> name, text |-> text, href |-> href]

\* table-of-contents documents as the element list find_all returns
IndexFiles ==
    { NoIndex,
      [exists |-> TRUE,
       els |-> << El("a", <<"Foo">>, <<"/", "document", "/">> \o HashA \o <<"/">>),
                  El("h2", <<"Glava", " ", "1", ".", "nbsp", " ", "Foo">>, <<>>),
                  El("a", <<"Statya", " ", "5">>, <<"/", "document", "/">> \o HashG),
                  El("p", <<"RAZDEL", " ", "IV", " ", "Bar">>, <<>>),
                  El("a", <<"Bar">>, <<"/", "document", "/", "index", "/">>),
                  El("a", <<"Dup">>, <<"/", "document", "/">> \o HashZ \o <<"/", "/">>),
                  El("a", <<"Glava", " ", "2", " ", "Foo">>,
                     <<"/", "document", "/">> \o HashA \o <<"/">>) >>] }

\* pages of a code directory
Html(paras) == [content |-> TRUE, paras |-> paras]

\* a page without the div.document-page__content container
NoContentPage == [content |-> FALSE, paras |-> <<>>]

HHuge == <<"Statya", " ", DigitRun, ".", " ", "Foo">>

PageFive == Html(<<Para(Plain, <<H5>>), Para(Plain, <<B21>>)>>)

PageTenFive ==
    Html(<<Para(Plain, <<H6>>), Para(Plain, <<B21>>),
           Para(Plain, <<H15>>), Para(Plain, <<B21>>),
           Para(Plain, <<H5>>), Para(Plain, <<<<"Body10">>>>),
           Para(Plain, <<<<"Text09", "nbsp", "Text09">>>>)>>)

PageHuge ==
    Html(<<Para(Plain, <<H6>>), Para(Plain, <<B21>>),
           Para(Plain, <<HHuge>>), Para(Plain, <<B21>>),
           Para(Plain, <<H15>>), Para(Plain, <<B21>>)>>)

PageStub ==
    Html(<<Para(Plain, <<H6>>), Para(Plain, <<<<"x">>>>), Para(Plain, <<<<"Body10">>>>)>>)

TocFile == CHOOSE f \in IndexFiles : f.exists

Dir(index, pages) == [exists |-> TRUE, index |-> index, pages |-> pages]

NoDir == [exists |-> FALSE, index |-> NoIndex, pages |-> <<>>]

\* the states of RAW_DIR / codex_id a run can find
Dirs ==
    { NoDir,
      Dir(TocFile, <<>>),
      Dir(TocFile, HashA :> PageFive @@ HashZ :> PageTenFive),
      Dir(NoIndex, HashA :> PageTenFive @@ HashZ :> PageFive),
      Dir(TocFile, HashA :> PageStub @@ HashM :> PageHuge),
      Dir(NoIndex, HashA :> NoContentPage @@ HashZ :> PageStub) }

\* every paragraph a page of the input can hold
Lines ==
    Paragraphs
    \cup UNION {{S[i] : i \in 1..Len(S)} : S \in Scenarios}
    \cup UNION {UNION {{d.pages[h].paras[i] : i \in 1..Len(d.pages[h].paras)} :
                        h \in DOMAIN d.pages} : d \in Dirs}

IndexName == <<"index">>

\* the file stems the model uses, in the order sorted() gives them
NameOrder == <<HashA, IndexName, HashM, HashZ>>

Rank(name) == CHOOSE i \in 1..Len(NameOrder) : NameOrder[i] = name

InDir(d, name) ==
    \/ name = IndexName /\ d.index.exists
    \/ name \in DOMAIN d.pages

\* sorted(codex_dir.glob("*.html"))
SortedFiles(d) == SelectSeq(NameOrder, LAMBDA n : InDir(d, n))

RECURSIVE FileLoop(_, _, _, _)
\* for html_file in html_files: skip index.html, parse the page, dedup
FileLoop(files, d, codex_id, acc) ==
    IF files = <<>> THEN acc
    ELSE IF Head(files) = IndexName THEN FileLoop(Tail(files), d, codex_id, acc)
    ELSE LET res == parse_article_page(d.pages[Head(files)], codex_id, Head(files),
                                       d.index, acc.cache)
             dd == Dedup(res.articles, acc.all_articles, acc.seen)
         IN  FileLoop(Tail(files), d, codex_id,
                      [all_articles |-> dd.all_articles, seen |-> dd.seen,
                       cache |-> res.cache])

\* parse_codex(codex_id) on the directory d, in a process that has not yet
\* looked up a chapter of this code
parse_codex(d, codex_id) ==
    IF ~d.exists THEN <<>>
    ELSE TrySort(FileLoop(SortedFiles(d), d, codex_id,
                          [all_articles |-> <<>>, seen |-> {}, cache |-> <<>>]).all_articles)

\* a file of PARSED_DIR
NoFile == [exists |-> FALSE, data |-> <<>>]

File(data) == [exists |-> TRUE, data |-> data]

\* ------------------------------------------------------------------- state
VARIABLES
    \* parse_article_page, one page read paragraph by paragraph
    stream, current_num, current_title, current_parts, articles, ppc,
    \* shared: index.html of the code being parsed, the chapter cache
    index_file, cache,
    \* main: the run, the program counter, the index of the code in work,
    \* the number of records of each code parsed so far
    run, pc, ci, summary,
    \* parse_codex: the directory, the files still to read, the locals
    codex_dir, html_files, all_articles, seen,
    \* the records parse_article_page returned for this code, in call order
    emitted,
    \* PARSED_DIR: the per-code files and all_codexes.json
    parsed, combined,
    \* callers of extract_chapter_from_index run side by side: the position
    \* and the locals of each, and the number of index builds begun
    callers, builds,
    \* embed_and_upload.main: the run, the program counter, the loaded corpus,
    \* the loop index, the pending points, the collection, and for each point
    \* id the uploads that carried it in this run and the ids upserted per run
    urun, upc, corpus, batch_i, points, store, sent, upserted,
    \* _upload_with_retry: its argument, its loop variable, its position, the
    \* outcome of each upsert call made, the exception raised, the seconds slept
    max_retries, attempt, rpc, tries, exc, slept,
    \* Pipeline: the two clients, the generator pipe returned and its position,
    \* the external calls made, the articles retrieved, the chunks still to
    \* come from the model, what the consumer received, the value of return
    \* and the number of questions asked
    openai_client, qdrant_client, gpc, calls, retrieved, chunks, received,
    stop_value, asked,
    \* download_article_pages: its position, the element in work, the links
    \* collected, the unique links, the page files of the directory, the run
    dpc, dpos, links, unique_links, saved, druns

pvars == <<stream, current_num, current_title, current_parts, articles, ppc>>

mvars == <<run, pc, ci, summary, codex_dir, html_files, all_articles, seen,
           emitted, parsed, combined>>

lvars == <<callers, builds>>

uvars == <<urun, upc, corpus, batch_i, points, store, sent, upserted>>

rvars == <<max_retries, attempt, rpc, tries, exc, slept>>

gvars == <<openai_client, qdrant_client, gpc, calls, retrieved, chunks, received,
           stop_value, asked>>

dvars == <<dpc, dpos, links, unique_links, saved, druns>>

xvars == <<uvars, rvars, gvars, dvars>>

vars == <<stream, current_num, current_title, current_parts, articles, ppc,
          index_file, cache,
          run, pc, ci, summary, codex_dir, html_files, all_articles, seen,
          emitted, parsed, combined, callers, builds,
          urun, upc, corpus, batch_i, points, store, sent, upserted,
          max_retries, attempt, rpc, tries, exc, slept,
          openai_client, qdrant_client, gpc, calls, retrieved, chunks, received,
          stop_value, asked,
          dpc, dpos, links, unique_links, saved, druns>>

\* the locals of parse_article_page as ParaStep takes them
Locals ==
    [current_num |-> current_num, current_title |-> current_title,
     current_parts |-> current_parts, articles |-> articles, cache |-> cache]

SetLocals(st) ==
    /\ current_num' = st.current_num
    /\ current_title' = st.current_title
    /\ current_parts' = st.current_parts
    /\ articles' = st.articles
    /\ cache' = st.cache

PageCodex == CODEX_NAMES[1]

PageHash == HashM

\* main() has not started
MainOff ==
    /\ run = 0
    /\ pc = "idle"
    /\ ci = 1
    /\ summary = <<>>
    /\ codex_dir = NoDir
    /\ html_files = <<>>
    /\ all_articles = <<>>
    /\ seen = {}
    /\ emitted = <<>>
    /\ parsed = [c \in CodeSet |-> NoFile]
    /\ combined = NoFile

Callers == 1..NumCallers

\* the locals of one call of extract_chapter_from_index
Call(at, i, current_chapter, chapter_map, result) ==
    [pc |-> at, i |-> i, current_chapter |-> current_chapter,
     chapter_map |-> chapter_map, result |-> result]

\* no call of extract_chapter_from_index runs beside the parser
LookupOff ==
    /\ callers = [t \in Callers |-> Call("off", 0, <<>>, <<>>, <<>>)]
    /\ builds = 0

\* the Qdrant collection: absent, or the points it holds by id
NoCollection == [exists |-> FALSE, points |-> <<>>]

\* no call of _upload_with_retry is in progress
RetryOff ==
    /\ max_retries = 0
    /\ attempt = 0
    /\ rpc = "off"
    /\ tries = <<>>
    /\ exc = None
    /\ slept = 0

\* embed_and_upload.main has not started
UploadOff ==
    /\ urun = 0
    /\ upc = "off"
    /\ corpus = <<>>
    /\ batch_i = 0
    /\ points = <<>>
    /\ store = NoCollection
    /\ sent = <<>>
    /\ upserted = <<>>

\* Pipeline.__init__: both clients are None, pipe has not been called
PipeOff ==
    /\ openai_client = None
    /\ qdrant_client = None
    /\ gpc = "off"
    /\ calls = <<>>
    /\ retrieved = <<>>
    /\ chunks = <<>>
    /\ received = <<>>
    /\ stop_value = None
    /\ asked = 0

\* download_article_pages has not started
DownloadOff ==
    /\ dpc = "off"
    /\ dpos = 0
    /\ links = <<>>
    /\ unique_links = <<>>
    /\ saved = {}
    /\ druns = 0

\* the uploader, the pipeline and the downloader are not running
OthersOff == RetryOff /\ UploadOff /\ PipeOff /\ DownloadOff

\* parse_codexes.py is not running
ParserOff ==
    /\ stream = <<>>
    /\ current_num = None
    /\ current_title = <<>>
    /\ current_parts = <<>>
    /\ articles = <<>>
    /\ ppc = "off"
    /\ cache = <<>>
    /\ MainOff
    /\ LookupOff

\* parse_article_page is entered; content is found or not
PageInit ==
    /\ stream = <<>>
    /\ current_num = None
    /\ current_title = <<>>
    /\ current_parts = <<>>
    /\ articles = <<>>
    /\ ppc \in {"loop", "nocontent"}
    /\ index_file = TocFile
    /\ cache = <<>>
    /\ MainOff
    /\ LookupOff
    /\ OthersOff

\* if not content: return articles
NoContent ==
    /\ ppc = "nocontent"
    /\ ppc' = "returned"
    /\ UNCHANGED <<stream, current_num, current_title, current_parts, articles,
                   index_file, cache>>
    /\ UNCHANGED <<mvars, lvars, xvars>>

\* one iteration of the paragraph loop
ReadParagraph(p) ==
    /\ ppc = "loop"
    /\ Len(stream) < MaxParas
    /\ stream' = Append(stream, p)
    /\ \E st \in {ParaStep(Locals, p, PageCodex, PageHash, index_file)} : SetLocals(st)
    /\ UNCHANGED <<ppc, index_file>>
    /\ UNCHANGED <<mvars, lvars, xvars>>

\* the loop is over: save_article(); return articles
EndOfStream ==
    /\ ppc = "loop"
    /\ \E st \in {FinalFlush(Locals, PageCodex, PageHash, index_file)} : SetLocals(st)
    /\ ppc' = "returned"
    /\ UNCHANGED <<stream, index_file>>
    /\ UNCHANGED <<mvars, lvars, xvars>>

PageNext ==
    \/ NoContent
    \/ \E p \in Paragraphs \cup ScenarioNext(stream) : ReadParagraph(p)
    \/ EndOfStream

SpecPage == PageInit /\ [][PageNext]_vars

\* -------------------------------------------------------------------- main
Init ==
    /\ stream = <<>>
    /\ current_num = None
    /\ current_title = <<>>
    /\ current_parts = <<>>
    /\ articles = <<>>
    /\ ppc = "off"
    /\ index_file = NoIndex
    /\ cache = <<>>
    /\ MainOff
    /\ LookupOff
    /\ OthersOff

\* after parse_codex returned: the for loop of main goes on or ends
AfterCodex ==
    /\ ci' = ci + 1
    /\ pc' = IF ci = NumCodes THEN "combine" ELSE "codex"

\* python parse_codexes.py: a new process, PARSED_DIR.mkdir(exist_ok=True)
StartRun ==
    /\ pc = "idle"
    /\ run < MaxRuns
    /\ run' = run + 1
    /\ ci' = 1
    /\ pc' = "codex"
    /\ summary' = <<>>
    /\ cache' = <<>>
    /\ codex_dir' = NoDir
    /\ index_file' = NoIndex
    /\ html_files' = <<>>
    /\ all_articles' = <<>>
    /\ seen' = {}
    /\ emitted' = <<>>
    /\ UNCHANGED <<parsed, combined>>
    /\ UNCHANGED <<pvars, lvars, xvars>>

\* parse_codex: the directory is not there, return []; main writes no file
MissingDir ==
    /\ pc = "codex"
    /\ codex_dir' = NoDir
    /\ index_file' = NoIndex
    /\ html_files' = <<>>
    /\ all_articles' = <<>>
    /\ seen' = {}
    /\ emitted' = <<>>
    /\ summary' = (CODEX_NAMES[ci] :> 0) @@ summary
    /\ AfterCodex
    /\ UNCHANGED <<run, cache, parsed, combined>>
    /\ UNCHANGED <<pvars, lvars, xvars>>

\* parse_codex: the directory is there; the files are listed in sorted order
ListDir(d) ==
    /\ pc = "codex"
    /\ d.exists
    /\ codex_dir' = d
    /\ index_file' = d.index
    /\ html_files' = SortedFiles(d)
    /\ all_articles' = <<>>
    /\ seen' = {}
    /\ emitted' = <<>>
    /\ pc' = "files"
    /\ UNCHANGED <<run, ci, summary, cache, parsed, combined>>
    /\ UNCHANGED <<pvars, lvars, xvars>>

\* if html_file.name == "index.html": continue
SkipIndex ==
    /\ pc = "files"
    /\ html_files # <<>>
    /\ Head(html_files) = IndexName
    /\ html_files' = Tail(html_files)
    /\ UNCHANGED <<run, pc, ci, summary, codex_dir, all_articles, seen, emitted,
                   parsed, combined, index_file, cache>>
    /\ UNCHANGED <<pvars, lvars, xvars>>

\* one article page: parse_article_page, then the dedup loop over its records
ReadPage ==
    /\ pc = "files"
    /\ html_files # <<>>
    /\ Head(html_files) # IndexName
    /\ \E res \in {parse_article_page(codex_dir.pages[Head(html_files)], CODEX_NAMES[ci],
                                     Head(html_files), index_file, cache)} :
       \E dd \in {Dedup(res.articles, all_articles, seen)} :
           /\ all_articles' = dd.all_articles
           /\ seen' = dd.seen
           /\ cache' = res.cache
           /\ emitted' = emitted \o res.articles
    /\ html_files' = Tail(html_files)
    /\ UNCHANGED <<run, pc, ci, summary, codex_dir, parsed, combined, index_file>>
    /\ UNCHANGED <<pvars, lvars, xvars>>

\* the file loop is over: sort, return; main writes the file if articles
ReturnCodex ==
    /\ pc = "files"
    /\ html_files = <<>>
    /\ IF SortRaises(all_articles) \in Caught \cup {"none"}
       THEN \E sorted \in {TrySort(all_articles)} :
               /\ all_articles' = sorted
               /\ parsed' = IF sorted # <<>>
                            THEN [parsed EXCEPT ![CODEX_NAMES[ci]] = File(sorted)]
                            ELSE parsed
               /\ summary' = (CODEX_NAMES[ci] :> Len(sorted)) @@ summary
               /\ AfterCodex
       ELSE /\ pc' = "crashed"
            /\ UNCHANGED <<all_articles, parsed, ci, summary>>
    /\ codex_dir' = NoDir
    /\ index_file' = NoIndex
    /\ UNCHANGED <<run, html_files, seen, emitted, combined, cache>>
    /\ UNCHANGED <<pvars, lvars, xvars>>

RECURSIVE ReadAllReversed(_, _)
\* ReadAll that prepends the file of each code instead of extending with it
ReadAllReversed(files, i) ==
    IF i > NumCodes THEN <<>>
    ELSE ReadAllReversed(files, i + 1)
         \o (IF files[CODEX_NAMES[i]].exists THEN files[CODEX_NAMES[i]].data ELSE <<>>)

RECURSIVE ReadAll(_, _)
\* for codex_id in CODEX_NAMES: if json_file.exists(): all_articles.extend(...)
ReadAll(files, i) ==
    IF i > NumCodes THEN <<>>
    ELSE (IF files[CODEX_NAMES[i]].exists THEN files[CODEX_NAMES[i]].data ELSE <<>>)
         \o ReadAll(files, i + 1)

\* the combined file is written from the per-code files found in PARSED_DIR;
\* the process ends, and its chapter cache and summary with it
Combine ==
    /\ pc = "combine"
    /\ combined' = File(ReadAll(parsed, 1))
    /\ pc' = "idle"
    /\ cache' = <<>>
    /\ summary' = <<>>
    /\ UNCHANGED <<run, ci, codex_dir, html_files, all_articles, seen, emitted,
                   parsed, index_file>>
    /\ UNCHANGED <<pvars, lvars, xvars>>

Next ==
    \/ StartRun
    \/ MissingDir
    \/ \E d \in Dirs : ListDir(d)
    \/ SkipIndex
    \/ ReadPage
    \/ ReturnCodex
    \/ Combine

Spec == Init /\ [][Next]_vars

\* ------------------------------------- extract_chapter_from_index, threaded
\* the page keys the callers look up
LookupHashes == <<HashA, HashZ, HashM>>

HashOf(t) == LookupHashes[((t - 1) % Len(LookupHashes)) + 1]

\* NumCallers calls of extract_chapter_from_index(PageCodex, ...) are made
\* from threads of one process before the cache holds anything
LookupInit ==
    /\ stream = <<>>
    /\ current_num = None
    /\ current_title = <<>>
    /\ current_parts = <<>>
    /\ articles = <<>>
    /\ ppc = "off"
    /\ index_file \in IndexFiles
    /\ cache = <<>>
    /\ MainOff
    /\ callers = [t \in Callers |-> Call("enter", 0, <<>>, <<>>, <<>>)]
    /\ builds = 0
    /\ OthersOff

\* if not index_file.exists(): return ""
Enter(t) ==
    /\ callers[t].pc = "enter"
    /\ callers' = [callers EXCEPT ![t].pc = IF index_file.exists THEN "check" ELSE "done"]
    /\ UNCHANGED <<builds, cache, index_file, pvars, mvars, xvars>>

\* if codex_id not in _cache: read index.html and start the walk
CheckCache(t) ==
    /\ callers[t].pc = "check"
    /\ IF PageCodex \in DOMAIN cache
       THEN /\ callers' = [callers EXCEPT ![t].pc = "lookup"]
            /\ UNCHANGED builds
       ELSE /\ callers' = [callers EXCEPT ![t] = Call("build", 1, <<>>, <<>>, <<>>)]
            /\ builds' = builds + 1
    /\ UNCHANGED <<cache, index_file, pvars, mvars, xvars>>

\* one element of the walk, or the end of the walk
BuildStep(t) ==
    /\ callers[t].pc = "build"
    /\ IF callers[t].i <= Len(index_file.els)
       THEN \E w \in {WalkStep(index_file.els[callers[t].i],
                                callers[t].current_chapter, callers[t].chapter_map)} :
               callers' = [callers EXCEPT ![t].i = @ + 1,
                                          ![t].current_chapter = w.current_chapter,
                                          ![t].chapter_map = w.chapter_map]
       ELSE callers' = [callers EXCEPT ![t].pc = "publish"]
    /\ UNCHANGED <<builds, cache, index_file, pvars, mvars, xvars>>

\* _cache[codex_id] = chapter_map
Publish(t) ==
    /\ callers[t].pc = "publish"
    /\ cache' = (PageCodex :> callers[t].chapter_map) @@ cache
    /\ callers' = [callers EXCEPT ![t].pc = "lookup"]
    /\ UNCHANGED <<builds, index_file, pvars, mvars, xvars>>

\* return _cache[codex_id].get(page_hash, "")
Lookup(t) ==
    /\ callers[t].pc = "lookup"
    /\ callers' = [callers EXCEPT
                     ![t].pc = "done",
                     ![t].result = IF HashOf(t) \in DOMAIN cache[PageCodex]
                                   THEN cache[PageCodex][HashOf(t)] ELSE <<>>]
    /\ UNCHANGED <<builds, cache, index_file, pvars, mvars, xvars>>

LookupNext ==
    \E t \in Callers :
        \/ Enter(t)
        \/ CheckCache(t)
        \/ BuildStep(t)
        \/ Publish(t)
        \/ Lookup(t)

SpecLookup == LookupInit /\ [][LookupNext]_vars

\* C14: callers that make their first lookup for one code side by side
\* cause one build of that code's index, and a published entry is not
\* written again
C14_SingleBuild ==
    /\ [](builds <= 1)
    /\ [][(PageCodex \in DOMAIN cache) => (cache' = cache)]_vars

\* ----------------------------------------- embed_and_upload.py: the uploader
\* the exceptions client.upsert raises; a failed call leaves the collection
\* as it was
Exceptions == {"timeout", "refused"}

\* the text one article is embedded from, by its parts
create_embedding_text(article) ==
    <<article.codex_id, article.article_num, article.text>>

\* one item of the response of embeddings.create
Embedding(text) == <<"embedding", text>>

\* embed_batch when the provider answers: one vector for each text
embed_batch(texts) == [j \in 1..Len(texts) |-> Embedding(texts[j])]

\* the key string the uploader would build from the article number alone
KeyStringNoCode(article) == article.article_num

\* f"{article['codex_id']}:{article['article_num']}"
KeyString(article) == <<article.codex_id, ":">> \o article.article_num

NAMESPACE_DNS == "dns"

\* str(uuid.uuid5(namespace, name)): a function of the namespace and the name;
\* two names are taken to give two identifiers
uuid5(namespace, name) == <<"uuid5", namespace>> \o name

PointStruct(id, vector, payload) == [id |-> id, vector |-> vector, payload |-> payload]

\* the body of the loop over zip(batch, embeddings)
MakePoint(article, embedding) ==
    PointStruct(uuid5(NAMESPACE_DNS, KeyString(article)), embedding,
                [codex_id |-> article.codex_id, article_num |-> article.article_num,
                 text |-> article.text])

\* zip(batch, embeddings) stops at the shorter of the two
Zip(batch, embeddings) ==
    [j \in 1..Min({Len(batch), Len(embeddings)}) |-> MakePoint(batch[j], embeddings[j])]

\* the slice that leaves out the last article of a batch
SliceDropLast(list, i) ==
    SubSeq(list, i + 1, Min({i + BATCH_SIZE - 1, Len(list)}))

\* articles[i : i + BATCH_SIZE]
Slice(list, i) == SubSeq(list, i + 1, Min({i + BATCH_SIZE, Len(list)}))

Ids(pts) == {pts[j].id : j \in 1..Len(pts)}

\* client.upsert that succeeds: each point replaces the point of its id, the
\* last of the list winning
Upsert(st, pts) ==
    [exists |-> TRUE,
     points |-> [id \in DOMAIN st.points \cup Ids(pts) |->
                   IF id \in Ids(pts)
                   THEN pts[CHOOSE j \in 1..Len(pts) :
                              /\ pts[j].id = id
                              /\ \A k \in (j + 1)..Len(pts) : pts[k].id # id]
                   ELSE st.points[id]]]

\* the except branch that retries after the last attempt as well
OnFailureNeverRaises(a, retries) == "retry"

\* if attempt < max_retries - 1: sleep and go on; else: raise
OnFailure(a, retries) == IF a < retries - 1 THEN "retry" ELSE "raise"

\* _upload_with_retry(client, collection, points, max_retries) is entered
CallUpload(retries) ==
    /\ max_retries' = retries
    /\ attempt' = 0
    /\ rpc' = "for"
    /\ tries' = <<>>
    /\ exc' = None
    /\ slept' = 0

\* the call of _upload_with_retry is over and its locals are gone
EndUpload ==
    /\ max_retries' = 0
    /\ attempt' = 0
    /\ rpc' = "off"
    /\ tries' = <<>>
    /\ exc' = None
    /\ slept' = 0

\* for attempt in range(max_retries): the next attempt, or the end of the
\* loop and of the function
ForAttempt ==
    /\ rpc = "for"
    /\ rpc' = IF attempt < max_retries THEN "try" ELSE "returned"
    /\ UNCHANGED <<max_retries, attempt, tries, exc, slept>>
    /\ UNCHANGED <<uvars, gvars, dvars>>
    /\ UNCHANGED <<pvars, mvars, lvars, index_file, cache>>

\* client.upsert(...) succeeds; return
UpsertOk ==
    /\ rpc = "try"
    /\ store.exists
    /\ store' = Upsert(store, points)
    /\ tries' = Append(tries, "ok")
    /\ rpc' = "returned"
    /\ sent' = [id \in DOMAIN sent \cup Ids(points) |->
                  (IF id \in DOMAIN sent THEN sent[id] ELSE 0)
                  + Cardinality({j \in 1..Len(points) : points[j].id = id})]
    /\ upserted' = IF urun = 0 THEN upserted
                   ELSE [upserted EXCEPT ![urun].ids = @ \cup Ids(points)]
    /\ UNCHANGED <<max_retries, attempt, exc, slept>>
    /\ UNCHANGED <<urun, upc, corpus, batch_i, points>>
    /\ UNCHANGED <<gvars, dvars>>
    /\ UNCHANGED <<pvars, mvars, lvars, index_file, cache>>

\* client.upsert(...) raises e: sleep and take the next attempt, or re-raise
UpsertFails(e) ==
    /\ rpc = "try"
    /\ tries' = Append(tries, e)
    /\ IF OnFailure(attempt, max_retries) = "retry"
       THEN /\ slept' = slept + RetryWait * (attempt + 1)
            /\ attempt' = attempt + 1
            /\ rpc' = "for"
            /\ UNCHANGED exc
       ELSE /\ exc' = e
            /\ rpc' = "raised"
            /\ UNCHANGED <<attempt, slept>>
    /\ UNCHANGED max_retries
    /\ UNCHANGED <<uvars, gvars, dvars>>
    /\ UNCHANGED <<pvars, mvars, lvars, index_file, cache>>

RetryNext ==
    \/ ForAttempt
    \/ UpsertOk
    \/ \E e \in Exceptions : UpsertFails(e)

\* record k of a corpus of n records as parse_codexes.py merges it: the
\* articles of the first code, then those of the second
CorpusRecord(n, k) ==
    LET first == (n + 1) \div 2
    IN  IF k <= first
        THEN [codex_id |-> CodexIds[1], article_num |-> <<ToString(k)>>, text |-> B21]
        ELSE [codex_id |-> CodexIds[2], article_num |-> <<ToString(k - first)>>,
              text |-> B21]

Corpus(n) == [k \in 1..n |-> CorpusRecord(n, k)]

\* the corpus sizes: none, one, a batch less one, a batch, a batch and one,
\* two batches and one
CorpusSizes == {0, 1, BATCH_SIZE - 1, BATCH_SIZE, BATCH_SIZE + 1, MaxArticles}

EmptyCollection == [exists |-> TRUE, points |-> <<>>]

\* batches a caller hands to _upload_with_retry
RetryBatches ==
    {Zip(Corpus(n), embed_batch([k \in 1..n |-> create_embedding_text(Corpus(n)[k])])) :
        n \in 1..MaxRetries}

\* a direct call of _upload_with_retry(client, collection, points, max_retries)
RetryInit ==
    /\ ParserOff
    /\ index_file = NoIndex
    /\ PipeOff
    /\ DownloadOff
    /\ urun = 0
    /\ upc = "off"
    /\ corpus = <<>>
    /\ batch_i = 0
    /\ points \in RetryBatches
    /\ store \in {EmptyCollection, Upsert(EmptyCollection, points)}
    /\ sent = <<>>
    /\ upserted = <<>>
    /\ max_retries \in 0..MaxRetries
    /\ attempt = 0
    /\ rpc = "for"
    /\ tries = <<>>
    /\ exc = None
    /\ slept = 0

SpecRetry == RetryInit /\ [][RetryNext]_vars

\* all_codexes.json is there; embed_and_upload.py has not run
UploadInit ==
    /\ ParserOff
    /\ index_file = NoIndex
    /\ PipeOff
    /\ DownloadOff
    /\ RetryOff
    /\ urun = 0
    /\ upc = "off"
    /\ corpus \in {Corpus(n) : n \in CorpusSizes}
    /\ batch_i = 0
    /\ points = <<>>
    /\ store \in {NoCollection, EmptyCollection}
    /\ sent = <<>>
    /\ upserted = <<>>

\* python embed_and_upload.py: load the articles, create the collection if it
\* is not there, points = []
StartUpload ==
    /\ upc \in {"off", "done", "crashed"}
    /\ urun < MaxUploads
    /\ urun' = urun + 1
    /\ store' = IF store.exists THEN store ELSE EmptyCollection
    /\ points' = <<>>
    /\ batch_i' = 0
    /\ sent' = <<>>
    /\ upserted' = Append(upserted, [ids |-> {}, done |-> FALSE])
    /\ upc' = "for"
    /\ UNCHANGED corpus
    /\ EndUpload
    /\ UNCHANGED <<gvars, dvars>>
    /\ UNCHANGED <<pvars, mvars, lvars, index_file, cache>>

\* for i in range(0, len(articles), BATCH_SIZE): the next batch or the end
ForBatch ==
    /\ upc = "for"
    /\ upc' = IF batch_i < Len(corpus) THEN "embed" ELSE "rest"
    /\ UNCHANGED <<urun, corpus, batch_i, points, store, sent, upserted>>
    /\ UNCHANGED <<rvars, gvars, dvars>>
    /\ UNCHANGED <<pvars, mvars, lvars, index_file, cache>>

\* the batch is embedded, by the batch call or text by text, and its points
\* are appended; or the provider fails a text twice and main ends
EmbedBatch(ok) ==
    /\ upc = "embed"
    /\ IF ok
       THEN \E batch \in {Slice(corpus, batch_i)} :
              \E texts \in {[j \in 1..Len(batch) |-> create_embedding_text(batch[j])]} :
                /\ points' = points \o Zip(batch, embed_batch(texts))
                /\ upc' = "flush"
       ELSE /\ upc' = "crashed"
            /\ UNCHANGED points
    /\ UNCHANGED <<urun, corpus, batch_i, store, sent, upserted>>
    /\ UNCHANGED <<rvars, gvars, dvars>>
    /\ UNCHANGED <<pvars, mvars, lvars, index_file, cache>>

\* if len(points) >= BATCH_SIZE: _upload_with_retry(...); else the next batch
Flush ==
    /\ upc = "flush"
    /\ IF Len(points) >= BATCH_SIZE
       THEN /\ CallUpload(DefaultRetries)
            /\ upc' = "upload"
            /\ UNCHANGED batch_i
       ELSE /\ batch_i' = batch_i + BATCH_SIZE
            /\ upc' = "for"
            /\ UNCHANGED rvars
    /\ UNCHANGED <<urun, corpus, points, store, sent, upserted>>
    /\ UNCHANGED <<gvars, dvars>>
    /\ UNCHANGED <<pvars, mvars, lvars, index_file, cache>>

\* the upload of a full buffer returned: points = [], the next batch
Uploaded ==
    /\ upc = "upload"
    /\ rpc = "returned"
    /\ points' = <<>>
    /\ batch_i' = batch_i + BATCH_SIZE
    /\ upc' = "for"
    /\ EndUpload
    /\ UNCHANGED <<urun, corpus, store, sent, upserted>>
    /\ UNCHANGED <<gvars, dvars>>
    /\ UNCHANGED <<pvars, mvars, lvars, index_file, cache>>

\* if points: _upload_with_retry(...); else main goes on to its report
Rest ==
    /\ upc = "rest"
    /\ IF points # <<>>
       THEN /\ CallUpload(DefaultRetries)
            /\ upc' = "upload_rest"
            /\ UNCHANGED upserted
       ELSE /\ upc' = "done"
            /\ upserted' = [upserted EXCEPT ![urun].done = TRUE]
            /\ UNCHANGED rvars
    /\ UNCHANGED <<urun, corpus, batch_i, points, store, sent>>
    /\ UNCHANGED <<gvars, dvars>>
    /\ UNCHANGED <<pvars, mvars, lvars, index_file, cache>>

\* the upload of the remaining points returned: main goes on to its report
\* and ends; points is not assigned again
UploadedRest ==
    /\ upc = "upload_rest"
    /\ rpc = "returned"
    /\ upc' = "done"
    /\ EndUpload
    /\ upserted' = [upserted EXCEPT ![urun].done = TRUE]
    /\ UNCHANGED <<urun, corpus, batch_i, points, store, sent>>
    /\ UNCHANGED <<gvars, dvars>>
    /\ UNCHANGED <<pvars, mvars, lvars, index_file, cache>>

\* _upload_with_retry raised: main ends with the exception
UploadRaised ==
    /\ upc \in {"upload", "upload_rest"}
    /\ rpc = "raised"
    /\ upc' = "crashed"
    /\ EndUpload
    /\ UNCHANGED <<urun, corpus, batch_i, points, store, sent, upserted>>
    /\ UNCHANGED <<gvars, dvars>>
    /\ UNCHANGED <<pvars, mvars, lvars, index_file, cache>>

UploadNext ==
    \/ StartUpload
    \/ ForBatch
    \/ \E ok \in BOOLEAN : EmbedBatch(ok)
    \/ Flush
    \/ Uploaded
    \/ Rest
    \/ UploadedRest
    \/ UploadRaised
    \/ RetryNext

SpecUpload == UploadInit /\ [][UploadNext]_vars

\* ------------------------------------------------ run_eval.py: the evaluator
\* the dict search_qdrant builds from one hit
Hit(point) ==
    [codex_id |-> point.payload.codex_id, article_num |-> point.payload.article_num]

\* key = f"{r['codex_id']}:{r['article_num']}"
RetrievedKey(r) == <<r.codex_id, ":">> \o r.article_num

\* ----------------------------------------------- properties of the uploader
\* the identifier of each record of the corpus, from the key the evaluator
\* builds for it
CorpusIds == {uuid5(NAMESPACE_DNS, RetrievedKey(corpus[k])) : k \in 1..Len(corpus)}

\* C21: the identifier of every stored point is the name-based identifier of
\* the key the evaluator builds for that point; after a run that ended
\* normally the collection holds one point for each record of the corpus and
\* no other; two runs over the same corpus that ended normally upserted the
\* same set of identifiers
C21_IdempotentIds ==
    /\ \A id \in DOMAIN store.points :
           id = uuid5(NAMESPACE_DNS, RetrievedKey(Hit(store.points[id])))
    /\ upc = "done" =>
           /\ DOMAIN store.points = CorpusIds
           /\ Cardinality(DOMAIN store.points) = Len(corpus)
    /\ \A r1, r2 \in 1..Len(upserted) :
           upserted[r1].done /\ upserted[r2].done => upserted[r1].ids = upserted[r2].ids

\* a second run over a corpus of more than one batch has ended normally
C21_Witness ==
    /\ upc = "done"
    /\ urun = 2
    /\ upserted[1].done
    /\ Len(corpus) > BATCH_SIZE
    /\ Cardinality(DOMAIN store.points) = Len(corpus)

\* C22: with max_retries >= 1, upsert is called at most max_retries times,
\* only the last call made can be the successful one, the function returns
\* only after a successful call and raises only after max_retries failed
\* calls, and the exception it raises is that of the last call
C22_BoundedRetry ==
    (max_retries >= 1 /\ rpc # "off") =>
        /\ Len(tries) <= max_retries
        /\ \A j \in 1..(Len(tries) - 1) : tries[j] # "ok"
        /\ rpc \in {"for", "try"} =>
               /\ Len(tries) = attempt
               /\ \A j \in 1..Len(tries) : tries[j] # "ok"
        /\ rpc = "returned" => (tries # <<>> /\ tries[Len(tries)] = "ok")
        /\ rpc = "raised" =>
               /\ Len(tries) = max_retries
               /\ tries[Len(tries)] # "ok"
               /\ exc = tries[Len(tries)]

\* every attempt of a call with two or more attempts failed, the last with
\* another exception than the first, and the call raised
C22_Witness ==
    /\ rpc = "raised"
    /\ max_retries >= 2
    /\ Len(tries) = max_retries
    /\ tries[1] # tries[Len(tries)]

\* the number of successful upsert calls that carried the point of record k
SentOf(k) ==
    LET id == uuid5(NAMESPACE_DNS, KeyString(corpus[k]))
    IN  IF id \in DOMAIN sent THEN sent[id] ELSE 0

\* C23 as stated: when main ends normally every article has been carried by
\* exactly one successful upsert call and the points buffer is empty
C23_UploadedOnceBufferEmpty ==
    upc = "done" =>
        /\ \A k \in 1..Len(corpus) : SentOf(k) = 1
        /\ points = <<>>

\* C23: when main ends normally every article has been carried by exactly
\* one successful upsert call, no other point has been upserted, every point
\* still in the buffer has been upserted, and the buffer is empty exactly
\* when the corpus size is a multiple of BATCH_SIZE
C23_UploadedOnce ==
    upc = "done" =>
        /\ \A k \in 1..Len(corpus) : SentOf(k) = 1
        /\ DOMAIN sent = CorpusIds
        /\ Ids(points) \subseteq DOMAIN store.points
        /\ (points = <<>>) <=> (Len(corpus) % BATCH_SIZE = 0)

\* main ended normally on a corpus of one batch and one article more: the
\* remainder was uploaded and is still in the buffer
C23_Witness ==
    /\ upc = "done"
    /\ Len(corpus) = BATCH_SIZE + 1
    /\ Len(points) = 1
    /\ \A k \in 1..Len(corpus) : SentOf(k) = 1

\* C25: whatever max_retries is, _upload_with_retry returns only after an
\* upsert call that succeeded, with the points in the collection
C25_ReturnsOnlyAfterUpsert ==
    rpc = "returned" =>
        /\ \E j \in 1..Len(tries) : tries[j] = "ok"
        /\ Ids(points) \subseteq DOMAIN store.points

\* ------------------------------------------- legal_rag.py: the RAG pipeline
OpenAI == <<"OpenAI">>

QdrantClient == <<"QdrantClient">>

\* the string of the first return statement of pipe
NotInitializedMsg == <<"Pipeline ne inicializirovan">>

\* the string of the second return statement of pipe
NoArticlesMsg == <<"ne nashel relevantnyh statej">>

\* the delta.content of the chunks of a streamed completion: a text or nothing
ChunkContents == {<<>>, <<"tok">>}

RECURSIVE SeqsUpTo(_, _)
SeqsUpTo(S, n) ==
    IF n = 0 THEN {<<>>}
    ELSE LET shorter == SeqsUpTo(S, n - 1)
         IN  shorter \cup {Append(s, x) : s \in {t \in shorter : Len(t) = n - 1}, x \in S}

\* the streams the model can answer with
ChunkStreams == SeqsUpTo(ChunkContents, MaxChunks)

\* the articles _retrieve builds from the hits, best first
HitList == [k \in 1..MaxHits |-> [article_num |-> <<ToString(k)>>, score |-> MaxHits - k]]

\* on_startup, which on_valves_updated runs again between two questions:
\* both clients are built, or a constructor raises
on_startup(outcome) ==
    /\ gpc \in {"off", "finished", "raised"}
    /\ openai_client' = IF outcome = "openai_raises" THEN openai_client ELSE OpenAI
    /\ qdrant_client' = IF outcome = "ok" THEN QdrantClient ELSE qdrant_client
    /\ UNCHANGED <<gpc, asked, calls, retrieved, chunks, received, stop_value>>
    /\ UNCHANGED <<uvars, rvars, dvars>>
    /\ UNCHANGED <<pvars, mvars, lvars, index_file, cache>>

\* pipe(...) is called: its body holds a yield, so the call runs none of it
\* and gives the caller a generator
CallPipe ==
    /\ gpc \in {"off", "finished", "raised"}
    /\ asked < MaxQuestions
    /\ asked' = asked + 1
    /\ gpc' = "created"
    /\ calls' = <<>>
    /\ retrieved' = <<>>
    /\ chunks' = <<>>
    /\ received' = <<>>
    /\ stop_value' = None
    /\ UNCHANGED <<openai_client, qdrant_client>>
    /\ UNCHANGED <<uvars, rvars, dvars>>
    /\ UNCHANGED <<pvars, mvars, lvars, index_file, cache>>

\* the caller asks for the first item and the body starts:
\* if not self.openai_client or not self.qdrant_client: return "..."
CheckClients ==
    /\ gpc = "created"
    /\ IF openai_client = None \/ qdrant_client = None
       THEN /\ gpc' = "finished"
            /\ stop_value' = NotInitializedMsg
       ELSE /\ gpc' = "expand"
            /\ UNCHANGED stop_value
    /\ UNCHANGED <<openai_client, qdrant_client, asked, calls, retrieved, chunks,
                   received>>
    /\ UNCHANGED <<uvars, rvars, dvars>>
    /\ UNCHANGED <<pvars, mvars, lvars, index_file, cache>>

\* one call of a client that returns or raises: _expand_keywords,
\* _rewrite_query and the embedding of the query in _retrieve
ClientCall(at, name, then, ok) ==
    /\ gpc = at
    /\ calls' = Append(calls, name)
    /\ gpc' = IF ok THEN then ELSE "raised"
    /\ UNCHANGED <<openai_client, qdrant_client, asked, retrieved, chunks, received,
                   stop_value>>
    /\ UNCHANGED <<uvars, rvars, dvars>>
    /\ UNCHANGED <<pvars, mvars, lvars, index_file, cache>>

\* keywords = self._expand_keywords(user_message)
ExpandKeywords(ok) == ClientCall("expand", "chat", "rewrite", ok)

\* search_query = self._rewrite_query(user_message, keywords, messages)
RewriteQuery(ok) == ClientCall("rewrite", "chat", "embed", ok)

\* query_embedding = self._embed(query)
EmbedQuery(ok) == ClientCall("embed", "embedding", "search", ok)

\* query_points gives n hits; if not articles: return "..."
Search(n) ==
    /\ gpc = "search"
    /\ calls' = Append(calls, "search")
    /\ retrieved' = SubSeq(HitList, 1, n)
    /\ IF n = 0
       THEN /\ gpc' = "finished"
            /\ stop_value' = NoArticlesMsg
       ELSE /\ gpc' = "generate"
            /\ UNCHANGED stop_value
    /\ UNCHANGED <<openai_client, qdrant_client, asked, chunks, received>>
    /\ UNCHANGED <<uvars, rvars, dvars>>
    /\ UNCHANGED <<pvars, mvars, lvars, index_file, cache>>

\* response = chat.completions.create(..., stream=True)
Generate(cs) ==
    /\ gpc = "generate"
    /\ calls' = Append(calls, "generation")
    /\ chunks' = cs
    /\ gpc' = "stream"
    /\ UNCHANGED <<openai_client, qdrant_client, asked, retrieved, received, stop_value>>
    /\ UNCHANGED <<uvars, rvars, dvars>>
    /\ UNCHANGED <<pvars, mvars, lvars, index_file, cache>>

\* for chunk in response: if chunk.choices[0].delta.content: yield it; the
\* caller receives what is yielded, and the body ends with the stream
NextChunk ==
    /\ gpc = "stream"
    /\ IF chunks = <<>>
       THEN /\ gpc' = "finished"
            /\ UNCHANGED <<chunks, received>>
       ELSE /\ chunks' = Tail(chunks)
            /\ received' = IF Head(chunks) # <<>> THEN Append(received, Head(chunks))
                           ELSE received
            /\ UNCHANGED gpc
    /\ UNCHANGED <<openai_client, qdrant_client, asked, calls, retrieved, stop_value>>
    /\ UNCHANGED <<uvars, rvars, dvars>>
    /\ UNCHANGED <<pvars, mvars, lvars, index_file, cache>>

PipeInit ==
    /\ ParserOff
    /\ index_file = NoIndex
    /\ RetryOff
    /\ UploadOff
    /\ DownloadOff
    /\ PipeOff

PipeNext ==
    \/ \E outcome \in {"ok", "openai_raises", "qdrant_raises"} : on_startup(outcome)
    \/ CallPipe
    \/ CheckClients
    \/ \E ok \in BOOLEAN : ExpandKeywords(ok)
    \/ \E ok \in BOOLEAN : RewriteQuery(ok)
    \/ \E ok \in BOOLEAN : EmbedQuery(ok)
    \/ \E n \in 0..MaxHits : Search(n)
    \/ \E cs \in ChunkStreams : Generate(cs)
    \/ NextChunk

SpecPipe == PipeInit /\ [][PipeNext]_vars

\* C24: a caller that has consumed the result of pipe has received the
\* not-initialized message, and no client was called, when a client was not
\* initialized; and has received the no-relevant-articles message, and no
\* generation call was made, when the search gave no article
C24_GuardMessages ==
    gpc = "finished" =>
        /\ (openai_client = None \/ qdrant_client = None) =>
               (received = <<NotInitializedMsg>> /\ calls = <<>>)
        /\ (calls # <<>> /\ calls[Len(calls)] = "search" /\ retrieved = <<>>) =>
               /\ received = <<NoArticlesMsg>>
               /\ \A j \in 1..Len(calls) : calls[j] # "generation"

\* ------------------------------------- download_codexes.py: the downloader
\* urlparse(info["url"]).path.rstrip("/") of the code in work
DocPath == <<"/", "document", "/", "cons_doc_LAW">>

\* page keys of six and of ten characters
HashS6 == <<"s1h2o3">>

HashS10 == <<"s1h2o3r4t5">>

\* a table of contents whose links lie under DocPath
TocLaw ==
    [exists |-> TRUE,
     els |-> << El("a", <<"Foo">>, DocPath \o <<"/">> \o HashA \o <<"/">>),
                El("h2", <<"Glava", " ", "1", ".", " ", "Foo">>, <<>>),
                El("a", <<"Statya", " ", "5">>, DocPath \o <<"/">> \o HashS6 \o <<"/">>),
                El("a", <<"Bar">>, DocPath \o <<"/", "index", "/">>),
                El("a", <<"Dup">>, DocPath \o <<"/">>),
                El("a", <<"Foo">>, <<"/", "document", "/", "other", "/">> \o HashZ \o <<"/">>),
                El("a", <<"Statya", " ", "6">>, DocPath \o <<"/">> \o HashM),
                El("a", <<"Statya", " ", "2">>, DocPath \o <<"/">> \o HashS10 \o <<"/">>),
                El("a", <<"Foo">>, DocPath \o <<"/">> \o HashA \o <<"/">>) >>]

\* the index.html files download_article_pages finds
DownloadTocs == {NoIndex, TocFile, TocLaw}

StartsWith(s, prefix) ==
    Len(s) >= Len(prefix) /\ SubSeq(s, 1, Len(prefix)) = prefix

RECURSIVE RStripSlash(_)
\* href.rstrip("/")
RStripSlash(s) ==
    IF s # <<>> /\ s[Len(s)] = "/" THEN RStripSlash(SubSeq(s, 1, Len(s) - 1)) ELSE s

Link(page_id, href) ==
    [page_id |-> page_id, url |-> <<"https://www.consultant.ru">> \o href]

\* the body of the loop over soup.find_all("a", href=True): the link is
\* collected when it lies under the document and its page id is long enough
CollectLink(el, collected) ==
    LET href == el.href
        page_id == LastSegment(href)
    IN  IF /\ el.name = "a"
           /\ href # <<>>
           /\ StartsWith(href, DocPath \o <<"/">>)
           /\ RStripSlash(href) # DocPath
           /\ page_id # <<>>
           /\ TextLen(page_id) > MinPageIdLen
        THEN Append(collected, Link(page_id, href))
        ELSE collected

RECURSIVE UniqueLinks(_, _, _)
\* the dedup loop: the first link of each page id is kept
UniqueLinks(ls, seen_ids, acc) ==
    IF ls = <<>> THEN acc
    ELSE IF Head(ls).page_id \in seen_ids THEN UniqueLinks(Tail(ls), seen_ids, acc)
    ELSE UniqueLinks(Tail(ls), seen_ids \cup {Head(ls).page_id}, Append(acc, Head(ls)))

RECURSIVE CollectAll(_, _)
\* the loop over soup.find_all("a", href=True)
CollectAll(els, collected) ==
    IF els = <<>> THEN collected
    ELSE CollectAll(Tail(els), CollectLink(Head(els), collected))

\* the page ids the links of a table of contents give
AcceptedKeys(f) ==
    {CollectAll(f.els, <<>>)[j].page_id : j \in 1..Len(CollectAll(f.els, <<>>))}

\* download_article_pages(codex_id, info) is called on a directory that holds
\* index.html or not, and no page file or one an earlier call saved
DownloadInit ==
    /\ ParserOff
    /\ index_file \in DownloadTocs
    /\ RetryOff
    /\ UploadOff
    /\ PipeOff
    /\ dpc = "start"
    /\ druns = 1
    /\ dpos = 0
    /\ links = <<>>
    /\ unique_links = <<>>
    /\ saved \in {{}, {HashA} \cap AcceptedKeys(index_file)}

\* if not index_file.exists(): return; else parse it and start the loop
ReadIndex ==
    /\ dpc = "start"
    /\ dpc' = IF index_file.exists THEN "links" ELSE "done"
    /\ dpos' = 1
    /\ links' = <<>>
    /\ unique_links' = <<>>
    /\ UNCHANGED <<druns, saved>>
    /\ UNCHANGED <<uvars, rvars, gvars>>
    /\ UNCHANGED <<pvars, mvars, lvars, index_file, cache>>

\* one element of the table of contents; after the last, the dedup loop
CollectStep ==
    /\ dpc = "links"
    /\ IF dpos <= Len(index_file.els)
       THEN /\ links' = CollectLink(index_file.els[dpos], links)
            /\ dpos' = dpos + 1
            /\ UNCHANGED <<dpc, unique_links>>
       ELSE /\ unique_links' = UniqueLinks(links, {}, <<>>)
            /\ dpos' = 1
            /\ dpc' = "fetch"
            /\ UNCHANGED links
    /\ UNCHANGED <<druns, saved>>
    /\ UNCHANGED <<uvars, rvars, gvars>>
    /\ UNCHANGED <<pvars, mvars, lvars, index_file, cache>>

\* one unique link: the page file is there already, or the page is fetched
\* and written, or the request fails and the page is left out
FetchStep(ok) ==
    /\ dpc = "fetch"
    /\ IF dpos <= Len(unique_links)
       THEN /\ saved' = IF ok /\ unique_links[dpos].page_id \notin saved
                        THEN saved \cup {unique_links[dpos].page_id}
                        ELSE saved
            /\ dpos' = dpos + 1
            /\ UNCHANGED dpc
       ELSE /\ dpc' = "done"
            /\ UNCHANGED <<saved, dpos>>
    /\ UNCHANGED <<druns, links, unique_links>>
    /\ UNCHANGED <<uvars, rvars, gvars>>
    /\ UNCHANGED <<pvars, mvars, lvars, index_file, cache>>

\* python download_codexes.py is run once more on the same directory
DownloadAgain ==
    /\ dpc = "done"
    /\ druns < MaxDownloads
    /\ druns' = druns + 1
    /\ dpc' = "start"
    /\ UNCHANGED <<dpos, links, unique_links, saved>>
    /\ UNCHANGED <<uvars, rvars, gvars>>
    /\ UNCHANGED <<pvars, mvars, lvars, index_file, cache>>

DownloadNext ==
    \/ ReadIndex
    \/ CollectStep
    \/ \E ok \in BOOLEAN : FetchStep(ok)
    \/ DownloadAgain

SpecDownload == DownloadInit /\ [][DownloadNext]_vars

\* the Chapter Index of each table of contents
ChapterMapOf == [f \in DownloadTocs |-> WalkIndex(f.els, <<>>, <<>>)]

\* C26: every page key download_article_pages has accepted from a link of
\* the table of contents, and every page it has saved, is a key of the
\* Chapter Index built from the same document
C26_DownloadedKeysIndexed ==
    /\ \A j \in 1..Len(unique_links) :
           unique_links[j].page_id \in DOMAIN ChapterMapOf[index_file]
    /\ dpc \in {"fetch", "done"} =>
           \A k \in saved : k \in DOMAIN ChapterMapOf[index_file]

\* ------------------------------------------- properties of one page's parse
\* get_text and ARTICLE_HEADER tabulated over the paragraphs of the input
LineText == [p \in Lines |-> get_text(p)]

LineHeader == [p \in Lines |-> ARTICLE_HEADER(get_text(p))]

LineMarked == [p \in Lines |-> HasSkipMarker(get_text(p))]

\* the line is offered to the state machine as far as the Noise Filter goes
PassesFilter(p) == ~ParentIsEdit(p) /\ ~LineMarked[p]

IsHeaderLine(p) == LineHeader[p].ok

AcceptedHeader(p) == PassesFilter(p) /\ IsHeaderLine(p)

AcceptedBody(p) ==
    /\ PassesFilter(p)
    /\ ~IsHeaderLine(p)
    /\ TextLen(LineText[p]) >= MinLineLen

TextsOf(ps) == [i \in 1..Len(ps) |-> LineText[ps[i]]]

HeaderIdxs(s) == {i \in 1..Len(s) : AcceptedHeader(s[i])}

NextHeader(s, i) == Min({j \in HeaderIdxs(s) : j > i} \cup {Len(s) + 1})

\* the body lines that follow header i up to the next accepted header
BodyOf(s, i) == TextsOf(SelectSeq(SubSeq(s, i + 1, NextHeader(s, i) - 1), AcceptedBody))

BodyText(s, i) == clean_text(JoinSpace(BodyOf(s, i)))

Qualifying(s) == {i \in HeaderIdxs(s) : TextLen(BodyText(s, i)) > MinTextLen}

\* the step reads one more paragraph, Line
Reads == Len(stream') = Len(stream) + 1

Line == stream'[Len(stream')]

PageLocals == <<current_num, current_title, current_parts, articles>>

\* C2: every emitted record has a whitespace-normalized text of more than 20
\* characters, and a flush of a candidate whose normalized body is 20
\* characters or shorter (an empty body included) emits nothing
C2_MinLength ==
    /\ [](\A k \in 1..Len(articles) :
            /\ TextLen(articles[k].text) > MinTextLen
            /\ clean_text(articles[k].text) = articles[k].text)
    /\ [][(/\ current_num # None
           /\ TextLen(clean_text(JoinSpace(current_parts))) <= MinTextLen
           /\ current_num' # current_num \/ ppc' = "returned")
          => articles' = articles]_vars

C2_Witness ==
    /\ ppc = "returned"
    /\ Len(articles) >= 1
    /\ \E i \in HeaderIdxs(stream) :
          /\ i \notin Qualifying(stream)
          /\ TextLen(JoinSpace(BodyOf(stream, i))) > MinTextLen

NotInEditBlock(p) == ~InEditBlock(p)

\* C3: a paragraph nested at any depth in an edit/insert block never
\* contributes: the parse is the parse of the stream without those paragraphs
C3_EditBlockExcluded ==
    LET st == ParaLoop(PageStart(<<>>), SelectSeq(stream, NotInEditBlock),
                       PageCodex, PageHash, index_file)
        fin == FinalFlush(st, PageCodex, PageHash, index_file)
    IN  IF ppc = "returned"
        THEN articles = fin.articles
        ELSE PageLocals = <<st.current_num, st.current_title, st.current_parts, st.articles>>

\* C7: a header line offered to the state machine, in either state, flushes
\* the open candidate (emitted iff it exists and its body exceeds 20
\* characters) and opens a new one with the extracted number and title and an
\* empty body; the open body holds only lines read after the latest header
C7_HeaderFlushesAndOpens ==
    /\ [][(Reads /\ AcceptedHeader(Line)) =>
            LET m == LineHeader[Line]
                body == clean_text(JoinSpace(current_parts))
            IN  /\ current_num' = m.num
                /\ current_title' = clean_text(m.title)
                /\ current_parts' = <<>>
                /\ IF current_num # None /\ TextLen(body) > MinTextLen
                   THEN /\ Len(articles') = Len(articles) + 1
                        /\ SubSeq(articles', 1, Len(articles)) = articles
                        /\ articles'[Len(articles')].article_num = current_num
                        /\ articles'[Len(articles')].article_title = current_title
                        /\ articles'[Len(articles')].text = body
                   ELSE articles' = articles]_vars
    /\ [](\A i \in HeaderIdxs(stream) :
            (NextHeader(stream, i) = Len(stream) + 1)
            => /\ current_num = LineHeader[stream[i]].num
               /\ \A k \in 1..Len(current_parts) :
                     \E j \in (i + 1)..Len(stream) :
                        LineText[stream[j]] = current_parts[k])

C7_Witness ==
    /\ Len(articles) = 1
    /\ current_num # None
    /\ current_num # articles[1].article_num
    /\ current_parts # <<>>
    /\ Cardinality(HeaderIdxs(stream)) = 2

\* C8: when parse_article_page returns, the records are those of the
\* accepted headers whose body exceeds 20 characters, one record each, in
\* header order, the last header of the page included
C8_EndOfStreamFlush ==
    ppc = "returned" =>
        LET Q == Qualifying(stream)
        IN  /\ Len(articles) = Cardinality(Q)
            /\ \A i \in Q :
                  LET k == Cardinality({j \in Q : j <= i})
                      m == LineHeader[stream[i]]
                  IN  /\ articles[k].article_num = m.num
                      /\ articles[k].article_title = clean_text(m.title)
                      /\ articles[k].text = BodyText(stream, i)

C8_Witness ==
    /\ ppc = "returned"
    /\ Len(articles) = 2
    /\ \E i \in Qualifying(stream) : NextHeader(stream, i) = Len(stream) + 1

\* C9 as stated: in ACCUMULATING every non-header line that is in no
\* edit/insert block and holds no skip marker is appended to the body
C9_AppendAsStated ==
    [][(/\ Reads
        /\ current_num # None
        /\ ~IsHeaderLine(Line)
        /\ ~InEditBlock(Line)
        /\ ~LineMarked[Line])
       => current_parts' = Append(current_parts, LineText[Line])]_vars

\* C9 amended: in ACCUMULATING every non-header line of at least 3
\* characters that is in no edit/insert block and holds no skip marker is
\* appended to the end of the body; the rest of the parse state is unchanged
C9_AppendLongEnough ==
    [][(/\ Reads
        /\ current_num # None
        /\ ~IsHeaderLine(Line)
        /\ ~InEditBlock(Line)
        /\ ~LineMarked[Line]
        /\ TextLen(LineText[Line]) >= MinLineLen)
       => /\ current_parts' = Append(current_parts, LineText[Line])
          /\ UNCHANGED <<current_num, current_title, articles>>]_vars

C9_Witness ==
    /\ current_num # None
    /\ Len(current_parts) = 2
    /\ current_parts[1] # current_parts[2]
    /\ AcceptedBody(stream[Len(stream)])

\* C10: in IDLE a non-header line changes nothing: no candidate is opened and
\* nothing of the line is kept, so no record can hold its text
C10_IdleIgnoresBody ==
    /\ [][(Reads /\ current_num = None /\ ~IsHeaderLine(Line))
          => UNCHANGED PageLocals]_vars
    /\ [](current_num = None => current_parts = <<>> /\ articles = <<>>)

C10_Witness ==
    /\ current_num = None
    /\ Len(stream) >= 2
    /\ \E i \in 1..Len(stream) : AcceptedBody(stream[i])

\* C11: a paragraph that holds a skip marker, in any letter case, or whose
\* parent is an edit/insert container changes nothing of the parse, in IDLE
\* and in ACCUMULATING: it opens no candidate, flushes none and extends no body
C11_ExcludedNeverActs ==
    [][(Reads /\ (LineMarked[Line] \/ ParentIsEdit(Line)))
       => UNCHANGED PageLocals]_vars

C11_Witness ==
    /\ current_num # None
    /\ current_parts # <<>>
    /\ Len(stream) = 4
    /\ LineMarked[stream[3]] /\ ~IsHeaderLine(stream[3])
    /\ \/ LineMarked[stream[4]] /\ IsHeaderLine(stream[4])
       \/ ParentIsEdit(stream[4])

\* the marker word, whitespace and a digit stand at index k of the text
MentionAt(t, k) ==
    /\ k + 2 <= Len(t)
    /\ Lower(t[k]) = "statya"
    /\ t[k + 1] \in WS
    /\ t[SkipClass(t, k + 1, WS)] \in DigitToks

\* the first mention of an article in the line comes after a prefix longer
\* than the short prefix of a header
ProseMention ==
    [p \in Lines |->
        LET t == LineText[p]
            Ks == {k \in 1..Len(t) : MentionAt(t, k)}
        IN  Ks # {} /\ TextLen(SubSeq(t, 1, Min(Ks) - 1)) > ShortPrefixLen]

\* C12: a line that mentions an article in running prose, after a prefix
\* longer than the short prefix of a header, is no boundary: it neither
\* flushes the open candidate nor opens a new one
C12_ProseIsNoBoundary ==
    [][(Reads /\ ProseMention[Line])
       => UNCHANGED <<current_num, current_title, articles>>]_vars

\* number, title and text of the records, in order
Triples(recs) ==
    [k \in 1..Len(recs) |->
        <<recs[k].article_num, recs[k].article_title, recs[k].text>>]

\* C13 as stated: the page "Statya 5. Foo", "Body one.", "Statya 6. Bar",
\* "Body two." yields the records (5, Foo, Body one.) and (6, Bar, Body two.)
C13_ScenarioA ==
    (ppc = "returned" /\ stream = ScenarioA)
    => Triples(articles) = << <<<<"5">>, <<"Foo">>, BodyOne>>,
                              <<<<"6">>, <<"Bar">>, BodyTwo>> >>

\* C13 amended: that page yields no record, both bodies being 9 characters
\* long; the same page with bodies of more than 20 characters yields exactly
\* the records of articles 5 and 6 with their bodies, in that order
C13_ScenarioAByLength ==
    /\ (ppc = "returned" /\ stream = ScenarioA) => articles = <<>>
    /\ (ppc = "returned" /\ stream = ScenarioALong)
       => Triples(articles) = << <<<<"5">>, <<"Foo">>, B21>>,
                                 <<<<"6">>, <<"Bar">>, B21>> >>

C13_Witness ==
    /\ ppc = "returned"
    /\ stream = ScenarioA
    /\ TextLen(BodyText(stream, 1)) = 9
    /\ TextLen(BodyText(stream, 3)) = 9

\* the line matches the Header Grammar and the Noise Filter drops it
DroppedHeader(p) == IsHeaderLine(p) /\ ~PassesFilter(p)

\* C28: a line that matches the Header Grammar and is dropped by the Noise
\* Filter neither flushes nor replaces the candidate; a body line that comes
\* right after it is appended to the candidate that was open before it, or
\* ignored in IDLE; and a record holds every body line read between its
\* header and the next header that was not dropped
C28_DroppedHeaderKeepsCandidate ==
    /\ [][(Reads /\ DroppedHeader(Line)) => UNCHANGED PageLocals]_vars
    /\ [][(/\ Reads
           /\ stream # <<>>
           /\ DroppedHeader(stream[Len(stream)])
           /\ AcceptedBody(Line))
          => /\ UNCHANGED <<current_num, current_title, articles>>
             /\ current_parts' = IF current_num = None THEN current_parts
                                 ELSE Append(current_parts, LineText[Line])]_vars
    /\ [](\A k \in 1..Len(articles) : \E i \in Qualifying(stream) :
            /\ articles[k].article_num = LineHeader[stream[i]].num
            /\ articles[k].text = BodyText(stream, i))

\* a record of one article holds a body line that followed the dropped
\* header of another article
C28_Witness ==
    /\ ppc = "returned"
    /\ \E k \in 1..Len(articles) : \E i \in Qualifying(stream) :
          \E j \in (i + 1)..(NextHeader(stream, i) - 2) :
             /\ articles[k].article_num = LineHeader[stream[i]].num
             /\ articles[k].text = BodyText(stream, i)
             /\ DroppedHeader(stream[j])
             /\ LineHeader[stream[j]].num # articles[k].article_num
             /\ AcceptedBody(stream[j + 1])
             /\ BodyOf(stream, i) = <<LineText[stream[j + 1]]>>

\* ------------------------------------------------ properties of a whole run
\* the elements of the table of contents that are links to a page key
LinkIdx(els) ==
    {i \in 1..Len(els) : /\ els[i].name = "a"
                         /\ els[i].href # <<>>
                         /\ TextLen(LastSegment(els[i].href)) > MinHashLen}

KeyAt(els, i) == LastSegment(els[i].href)

\* the running chapter at element i: the text of the latest element up to
\* and including i that is a chapter heading, or the empty string
ChapterAt(els, i) ==
    LET H == {j \in 1..i : ChapterMatch(els[j].text)}
    IN  IF H = {} THEN <<>>
        ELSE clean_text(els[CHOOSE j \in H : \A k \in H : k <= j].text)

\* what a lookup of page key k in the built index of code c returns
LookupOf(c, k) == IF k \in DOMAIN cache[c] THEN cache[c][k] ELSE <<>>

\* the links of the table of contents, their page keys and running chapters
TocLinks == LinkIdx(TocFile.els)

TocKey == [i \in TocLinks |-> KeyAt(TocFile.els, i)]

TocChapter == [i \in TocLinks |-> ChapterAt(TocFile.els, i)]

\* the links that no later link to the same page key follows
TocLastLinks == {i \in TocLinks : \A j \in TocLinks : TocKey[j] = TocKey[i] => j <= i}

\* C15 as stated: for every link of the table of contents, the lookup of its
\* page key returns the chapter that was running at that link
C15_EveryLink ==
    \A c \in DOMAIN cache : \A i \in TocLinks :
        LookupOf(c, TocKey[i]) = TocChapter[i]

\* C15 amended: the lookup of a page key returns the chapter that was running
\* at the last link with that key, and that is the chapter of the records of
\* the page
C15_LastLink ==
    /\ \A c \in DOMAIN cache : \A i \in TocLastLinks :
          LookupOf(c, TocKey[i]) = TocChapter[i]
    /\ \A k \in 1..Len(emitted) :
          emitted[k].codex_id \in DOMAIN cache
          => emitted[k].chapter = LookupOf(emitted[k].codex_id, emitted[k].url.page)

\* the lookup of page key h cannot be resolved: the code has no table of
\* contents, or the table of contents has no link to h
Unresolvable(index, h) ==
    \/ ~index.exists
    \/ \A i \in LinkIdx(index.els) : KeyAt(index.els, i) # h

\* the step parses the article page Head(html_files)
ParsesPage ==
    /\ pc = "files"
    /\ html_files # <<>>
    /\ Head(html_files) # IndexName
    /\ html_files' = Tail(html_files)

\* C16: a page whose chapter lookup cannot be resolved is parsed without an
\* error, and each of its candidates with a body of more than 20 characters is
\* emitted as a record with the empty chapter
C16_SoftFailChapter ==
    [][(ParsesPage /\ Unresolvable(index_file, Head(html_files)))
       => LET paras == codex_dir.pages[Head(html_files)].paras
              new == SubSeq(emitted', Len(emitted) + 1, Len(emitted'))
          IN  /\ pc' = "files"
              /\ Len(new) = Cardinality(Qualifying(paras))
              /\ \A k \in 1..Len(new) : new[k].chapter = <<>>]_vars

C16_Witness ==
    \E c1, c2 \in CodeSet :
        /\ parsed[c1].exists
        /\ \E k \in 1..Len(parsed[c1].data) :
              /\ parsed[c1].data[k].url.page = HashM
              /\ parsed[c1].data[k].chapter = <<>>
        /\ parsed[c2].exists
        /\ \E k \in 1..Len(parsed[c2].data) :
              /\ parsed[c2].data[k].url.page = HashA
              /\ parsed[c2].data[k].chapter = <<>>

CodeIdx(c) == CHOOSE i \in 1..NumCodes : CODEX_NAMES[i] = c

\* the records of code c among recs, in their order
OfCode(recs, c) == SelectSeq(recs, LAMBDA r : r.codex_id = c)

\* the per-code file of c as main() finds it when it merges
FileGroup(c) == IF parsed[c].exists THEN parsed[c].data ELSE <<>>

\* the step writes all_codexes.json
Combines == pc = "combine" /\ pc' = "idle"

\* the step returns from parse_codex for the code CODEX_NAMES[ci]
ReturnsCode == pc \in {"codex", "files"} /\ ci' = ci + 1

\* C17: the combined corpus is the per-code groups one after the other in the
\* order of CODEX_NAMES: the records of a code are contiguous, a group that
\* parse_codex returned with records is stored and merged as returned, and
\* the merge drops and reorders nothing
C17_MergeInCodeOrder ==
    /\ [][Combines =>
            /\ combined'.data = Concat([i \in 1..NumCodes |-> FileGroup(CODEX_NAMES[i])])
            /\ \A c \in CodeSet :
                  summary[c] > 0 => OfCode(combined'.data, c) = parsed[c].data]_vars
    /\ [][(ReturnsCode /\ all_articles' # <<>>)
          => parsed'[CODEX_NAMES[ci]] = File(all_articles')]_vars
    /\ [](combined.exists =>
            \A i, j \in 1..Len(combined.data) :
                i < j => CodeIdx(combined.data[i].codex_id)
                         <= CodeIdx(combined.data[j].codex_id))

C17_Witness ==
    /\ pc = "idle"
    /\ combined.exists
    /\ \E c1, c2 \in CodeSet :
          /\ c1 # c2
          /\ Len(OfCode(combined.data, c1)) >= 2
          /\ Len(OfCode(combined.data, c2)) >= 1

\* C18: in every run each code is processed, and a code that yields no
\* record in the run has no record in the combined corpus the run writes
C18_EmptyGroupEveryRun ==
    /\ [](pc = "combine" => DOMAIN summary = CodeSet)
    /\ [][Combines =>
            \A c \in CodeSet :
                summary[c] = 0 => OfCode(combined'.data, c) = <<>>]_vars

\* C19: when main() has returned, the combined file exists and every code
\* has a per-code file, which holds exactly the records parse_codex returned
\* for the code in this run, none included
C19_AllFilesExist ==
    /\ []((pc = "idle" /\ run >= 1)
          => (combined.exists /\ \A c \in CodeSet : parsed[c].exists))
    /\ [][ReturnsCode => parsed'[CODEX_NAMES[ci]] = File(all_articles')]_vars

\* parse_codex tabulated over the directories of the input
GroupOf == [d \in Dirs |-> [c \in CodeSet |-> parse_codex(d, c)]]

\* the group of code c in this run: the file written in this run, or nothing
ThisRun(c) == IF summary[c] > 0 THEN parsed[c].data ELSE <<>>

\* C20: the result of a run is a function of its input documents: the group
\* of a code is what parse_codex yields for its directory, and the combined
\* corpus is these groups one after the other; so two runs on identical
\* input write the same combined corpus
C20_ResultOfInputOnly ==
    /\ [][ReturnsCode =>
            all_articles' = GroupOf[IF pc = "files" THEN codex_dir ELSE NoDir][CODEX_NAMES[ci]]]_vars
    /\ [][Combines =>
            combined'.data = Concat([i \in 1..NumCodes |-> ThisRun(CODEX_NAMES[i])])]_vars

C15_Witness ==
    /\ \E k \in 1..Len(emitted) :
          /\ emitted[k].url.page = HashA
          /\ emitted[k].chapter = <<"Glava", " ", "2", " ", "Foo">>
    /\ \E k \in 1..Len(emitted) :
          /\ emitted[k].url.page = HashZ
          /\ emitted[k].chapter = <<"RAZDEL", " ", "IV", " ", "Bar">>

\* parse_codex is not in its file loop: all_articles is what it returned
Returned == pc \in {"codex", "combine", "idle"}

NoDupKeys(recs) ==
    \A i, j \in 1..Len(recs) : i # j => Key(recs[i]) # Key(recs[j])

\* C1: after main() has run, no two records of the combined corpus share the
\* same (codex_id, article_num)
C1_UniqueKeys == combined.exists => NoDupKeys(combined.data)

C1_Witness ==
    /\ pc = "idle"
    /\ combined.exists
    /\ ~NoDupKeys(emitted)
    /\ \E i, j \in 1..Len(combined.data) :
          combined.data[i].codex_id # combined.data[j].codex_id

\* the indexes of the records emitted with the key of r, in call order
SameKey(r) == {i \in 1..Len(emitted) : Key(emitted[i]) = Key(r)}

\* C4: of the records several pages of a code emit with one key, parse_codex
\* keeps the one of the first page in sorted file order, unaltered, and drops
\* every later one without raising
C4_FirstPageWins ==
    /\ pc # "crashed"
    /\ \A i \in 1..Len(emitted) : \E k \in 1..Len(all_articles) :
          Key(all_articles[k]) = Key(emitted[i])
    /\ \A k \in 1..Len(all_articles) :
          LET r == all_articles[k]
          IN  /\ SameKey(r) # {}
              /\ r = emitted[Min(SameKey(r))]
              /\ \A j \in SameKey(r) : Rank(r.url.page) <= Rank(emitted[j].url.page)
              /\ \A j \in 1..Len(all_articles) : Key(all_articles[j]) = Key(r) => j = k

C4_Witness ==
    /\ Returned
    /\ \E k \in 1..Len(all_articles) : \E j \in SameKey(all_articles[k]) :
          /\ emitted[j].url.page # all_articles[k].url.page
          /\ emitted[j].text # all_articles[k].text

\* a dotted numeric: groups of digits joined by single dots, each group one
\* the integer conversion accepts
WellFormedNum(num) ==
    /\ num # <<>>
    /\ \A i \in 1..Len(num) : num[i] \in DigitToks \cup {"."}
    /\ num[1] # "." /\ num[Len(num)] # "."
    /\ \A i \in 1..(Len(num) - 1) : ~(num[i] = "." /\ num[i + 1] = ".")
    /\ \A i, j \in 1..Len(num) :
          (i <= j /\ \A k \in i..j : num[k] # ".")
          => TextLen(SubSeq(num, i, j)) <= IntMaxStrDigits

AllWellFormed(recs) == \A i \in 1..Len(recs) : WellFormedNum(recs[i].article_num)

NonDecreasing(recs) ==
    \A i, j \in 1..Len(recs) :
        i < j => ~TupleLess(sort_key(recs[j]), sort_key(recs[i]))

\* C5: a code group returned by parse_codex whose article numbers are all
\* well-formed dotted numerics has non-decreasing integer tuples; so has the
\* per-code file written from it
C5_SortedGroup ==
    /\ (Returned /\ AllWellFormed(all_articles)) => NonDecreasing(all_articles)
    /\ \A c \in CodeSet :
          (parsed[c].exists /\ AllWellFormed(parsed[c].data)) => NonDecreasing(parsed[c].data)

C5_Witness ==
    /\ Returned
    /\ Len(all_articles) >= 3
    /\ AllWellFormed(all_articles)
    /\ \E i \in 1..Len(all_articles) : Len(sort_key(all_articles[i])) = 2
    /\ \E i, j \in 1..Len(emitted) :
          /\ i < j
          /\ TupleLess(sort_key(emitted[j]), sort_key(emitted[i]))

FirstIdx == {i \in 1..Len(emitted) : \A j \in 1..(i - 1) : Key(emitted[j]) # Key(emitted[i])}

\* the first occurrence of every key of emitted, in call order
EncounterOrder ==
    [k \in 1..Cardinality(FirstIdx) |->
        emitted[CHOOSE i \in FirstIdx : Cardinality({j \in FirstIdx : j <= i}) = k]]

\* C6: if a record of the group has an article number that does not parse as
\* dot-separated integers, parse_codex raises nothing and returns every
\* deduplicated record in encounter order
C6_FailSoftSort ==
    /\ pc # "crashed"
    /\ (Returned /\ ~AllWellFormed(all_articles)) => all_articles = EncounterOrder

C6_Witness ==
    /\ Returned
    /\ ~AllWellFormed(all_articles)
    /\ Len(all_articles) >= 3
    /\ \E i, j \in 1..Len(all_articles) :
          /\ i < j
          /\ WellFormedNum(all_articles[i].article_num)
          /\ WellFormedNum(all_articles[j].article_num)
          /\ TupleLess(sort_key(all_articles[j]), sort_key(all_articles[i]))

\* the paragraphs of page h of directory d
ParasOf(d, h) == d.pages[h].paras

\* the article numbers of the candidates of each page that are discarded as
\* stubs, and of those that are emitted
PageStubs ==
    [d \in Dirs |-> [h \in DOMAIN d.pages |->
        {LineHeader[ParasOf(d, h)[i]].num :
            i \in HeaderIdxs(ParasOf(d, h)) \ Qualifying(ParasOf(d, h))}]]

PageFull ==
    [d \in Dirs |-> [h \in DOMAIN d.pages |->
        {LineHeader[ParasOf(d, h)[i]].num : i \in Qualifying(ParasOf(d, h))}]]

\* the article pages of the directory in work that have been read
PagesRead ==
    SelectSeq(SubSeq(SortedFiles(codex_dir), 1,
                     Len(SortedFiles(codex_dir)) - Len(html_files)),
              LAMBDA n : n # IndexName)

\* page b is the first page read that holds article num with a body of more
\* than 20 characters, and a page read before it holds a stub of it
StubThenFull(num, b) ==
    /\ num \in PageFull[codex_dir][PagesRead[b]]
    /\ \A c \in 1..(b - 1) : num \notin PageFull[codex_dir][PagesRead[c]]
    /\ \E a \in 1..(b - 1) : num \in PageStubs[codex_dir][PagesRead[a]]

\* C27: every key of the seen-set is the key of an emitted record, whose
\* body exceeds 20 characters, and of a record kept; and when a page holds
\* only a stub of an article and a later page of the code is the first to
\* hold it with a body of more than 20 characters, the record of the later
\* page is kept
C27_StubNeverSeen ==
    /\ \A key \in seen :
          /\ \E i \in 1..Len(emitted) :
                Key(emitted[i]) = key /\ TextLen(emitted[i].text) > MinTextLen
          /\ \E k \in 1..Len(all_articles) : Key(all_articles[k]) = key
    /\ \A k \in 1..Len(all_articles) : TextLen(all_articles[k].text) > MinTextLen
    /\ pc = "files" =>
          \A b \in 1..Len(PagesRead) :
             \A num \in PageFull[codex_dir][PagesRead[b]] :
                StubThenFull(num, b) =>
                   \E k \in 1..Len(all_articles) :
                      /\ all_articles[k].article_num = num
                      /\ all_articles[k].url.page = PagesRead[b]
                      /\ Key(all_articles[k]) \in seen

\* the stub of an article was read, then the page that holds the article
\* with a full body, and the record of that page is kept
C27_Witness ==
    /\ pc = "files"
    /\ html_files = <<>>
    /\ \E b \in 1..Len(PagesRead) : \E num \in PageFull[codex_dir][PagesRead[b]] :
          /\ StubThenFull(num, b)
          /\ \E k \in 1..Len(all_articles) :
                /\ all_articles[k].article_num = num
                /\ all_articles[k].url.page = PagesRead[b]

====
